---- MODULE Spec2Model ----
(***************************************************************************)
(* Model of the mock inference server (chat completions, SSE streaming)   *)
(* and of the forwarding proxy (CONNECT tunnel, forward mode, streaming   *)
(* relay).  Text is a sequence of one-character strings, so that          *)
(* splitting, joining and length are computed, not assumed.               *)
(***************************************************************************)
EXTENDS Integers, Sequences, FiniteSets, TLC

VARIABLES chat, tun, fwd, hdr, api, prov

vars == <<chat, tun, fwd, hdr, api, prov>>

\* what each component leaves alone
notChat == <<tun, fwd, hdr, api, prov>>
notTun == <<chat, fwd, hdr, api, prov>>
notFwd == <<chat, tun, hdr, api, prov>>
notHdr == <<chat, tun, fwd, api, prov>>
notApi == <<chat, tun, fwd, hdr, prov>>
notProv == <<chat, tun, fwd, hdr, api>>

\* ------------------------------------------------------------------ bounds
NumReqs == 2
MaxN == 2
MaxSent == 2
MaxBody == 3
BufLen == 2
MaxHdr == 3
MaxCalls == 2
MaxNow == 1
PatLen == 1
EpsInv == 100

Reqs == 1..NumReqs

\* ----------------------------------------------------------- generic helpers
Nil == <<>>
Some(x) == <<x>>

RECURSIVE Concat(_)
Concat(ss) == IF ss = <<>> THEN <<>> ELSE Head(ss) \o Concat(Tail(ss))

IsPrefix(s, t) == Len(s) <= Len(t) /\ SubSeq(t, 1, Len(s)) = s

\* ---------------------------------------------------------------- mock data
mockResponses ==
  << <<"H", "e", "l", "l", "o", "!", " ", "I", "'", "m", " ", "a", " ", "m", "o", "c", "k", " ", "O", "p", "e", "n", "A", "I", " ", "s", "e", "r", "v", "e", "r", ".", " ", "H", "o", "w", " ", "c", "a", "n", " ", "I", " ", "h", "e", "l", "p", " ", "y", "o", "u", " ", "t", "o", "d", "a", "y", "?">>,
     <<"I", "'", "m", " ", "h", "e", "r", "e", " ", "t", "o", " ", "a", "s", "s", "i", "s", "t", " ", "w", "i", "t", "h", " ", "y", "o", "u", "r", " ", "t", "e", "s", "t", "i", "n", "g", " ", "n", "e", "e", "d", "s", ".", " ", "T", "h", "i", "s", " ", "i", "s", " ", "a", " ", "s", "i", "m", "u", "l", "a", "t", "e", "d", " ", "r", "e", "s", "p", "o", "n", "s", "e", ".">>,
     <<"T", "h", "i", "s", " ", "i", "s", " ", "a", " ", "m", "o", "c", "k", " ", "r", "e", "s", "p", "o", "n", "s", "e", " ", "f", "r", "o", "m", " ", "t", "h", "e", " ", "O", "p", "e", "n", "A", "I", "-", "c", "o", "m", "p", "a", "t", "i", "b", "l", "e", " ", "s", "e", "r", "v", "e", "r", ".", " ", "E", "v", "e", "r", "y", "t", "h", "i", "n", "g", " ", "i", "s", " ", "w", "o", "r", "k", "i", "n", "g", " ", "c", "o", "r", "r", "e", "c", "t", "l", "y", "!">>,
     <<"G", "r", "e", "e", "t", "i", "n", "g", "s", "!", " ", "I", "'", "m", " ", "a", " ", "t", "e", "s", "t", " ", "s", "e", "r", "v", "e", "r", " ", "s", "i", "m", "u", "l", "a", "t", "i", "n", "g", " ", "O", "p", "e", "n", "A", "I", "'", "s", " ", "A", "P", "I", ".", " ", "F", "e", "e", "l", " ", "f", "r", "e", "e", " ", "t", "o", " ", "e", "x", "p", "e", "r", "i", "m", "e", "n", "t", "!">>,
     <<"M", "o", "c", "k", " ", "r", "e", "s", "p", "o", "n", "s", "e", " ", "g", "e", "n", "e", "r", "a", "t", "e", "d", " ", "s", "u", "c", "c", "e", "s", "s", "f", "u", "l", "l", "y", ".", " ", "Y", "o", "u", "r", " ", "A", "P", "I", " ", "i", "n", "t", "e", "g", "r", "a", "t", "i", "o", "n", " ", "i", "s", " ", "w", "o", "r", "k", "i", "n", "g", "!">> >>

\* unicode.IsSpace on the representable ASCII white space
IsSpace(c) == c \in {" ", "\t", "\n", "\r", "\f"}

\* strings.Fields: the maximal runs of non-space characters, in order.
\* A field starts at a non-space character that is first or follows a space
\* and ends before the next space or at the end of the text.
FieldStarts(s) ==
  {i \in 1..Len(s) : ~IsSpace(s[i]) /\ (i = 1 \/ IsSpace(s[i - 1]))}

FieldEnd(s, i) ==
  CHOOSE j \in i..Len(s) :
    /\ \A k \in i..j : ~IsSpace(s[k])
    /\ (j = Len(s) \/ IsSpace(s[j + 1]))

Fields(s) ==
  LET starts == FieldStarts(s)
      Nth(k) == CHOOSE i \in starts : Cardinality({j \in starts : j <= i}) = k
  IN [k \in 1..Cardinality(starts) |-> SubSeq(s, Nth(k), FieldEnd(s, Nth(k)))]

\* strings.Join
RECURSIVE Join(_, _)
Join(texts, sep) ==
  IF texts = <<>> THEN <<>>
  ELSE IF Len(texts) = 1 THEN texts[1]
  ELSE texts[1] \o sep \o Join(Tail(texts), sep)

estimateTokens(text) == Len(text) \div 4

\* MessageContent.GetText
RECURSIVE TextParts(_)
TextParts(parts) ==
  IF parts = <<>> THEN <<>>
  ELSE IF Head(parts).Type = "text" /\ Head(parts).Text # <<>>
         THEN <<Head(parts).Text>> \o TextParts(Tail(parts))
         ELSE TextParts(Tail(parts))

\* text parts run together without a separator
GetTextNoSeparator(mc) ==
  IF mc.Text # <<>> THEN mc.Text ELSE Join(TextParts(mc.Parts), <<>>)

GetText(mc) == IF mc.Text # <<>> THEN mc.Text ELSE Join(TextParts(mc.Parts), <<" ">>)

\* =========================================================================
\*  Inference endpoint: POST /v1/chat/completions
\* =========================================================================

\* ---- request inputs -----------------------------------------------------
TextHello == <<"H", "e", "l", "l", "o", "!">>
ContentHello == [Text |-> TextHello, Parts |-> <<>>]
ContentParts ==
  [Text |-> <<>>,
   Parts |-> << [Type |-> "text", Text |-> <<"a", "b", "c", "d">>],
                [Type |-> "image_url", Text |-> <<>>],
                [Type |-> "text", Text |-> <<"x", "y", "z">>] >>]

MessageLists ==
  { <<>>,
    << [role |-> "system", content |-> ContentParts],
       [role |-> "user", content |-> ContentHello] >> }

ToolLists == { <<>>, <<"get_weather">>, <<"get_time", "get_weather">> }

\* tool_choice is decoded into interface{}: absent, a JSON string, a JSON
\* object (forced function), or another JSON value
ToolChoices ==
  { [t |-> "nil", v |-> ""],
    [t |-> "string", v |-> "required"],
    [t |-> "string", v |-> "auto"],
    [t |-> "string", v |-> "none"],
    [t |-> "map", v |-> "get_weather"],
    [t |-> "number", v |-> "1"] }

NValues == {Nil} \cup {Some(k) : k \in 0..MaxN}

ChatRequests ==
  [method : {"POST", "GET"}, decodable : BOOLEAN, model : {"", "gpt-4o"},
   messages : MessageLists, stream : BOOLEAN, n : NValues,
   tools : ToolLists, tool_choice : ToolChoices, flusher : BOOLEAN]

IdPool == {"u1", "u2"}

Fingerprints == {"fp_1", "fp_2"}

NoReq == [method |-> "", decodable |-> FALSE, model |-> "", messages |-> <<>>,
          stream |-> FALSE, n |-> Nil, tools |-> <<>>,
          tool_choice |-> [t |-> "nil", v |-> ""], flusher |-> FALSE]

\* ---- responses ----------------------------------------------------------
NoUsage == [prompt_tokens |-> 0, completion_tokens |-> 0, total_tokens |-> 0]

NoResp == [status |-> 0, kind |-> "none", type |-> "", param |-> Nil, code |-> Nil,
           model |-> "", choices |-> <<>>, usage |-> NoUsage]

\* an error writer that calls every error a server error
sendErrorServerType(status, errType, param, code) ==
  [status |-> status, kind |-> "error", type |-> "server_error", param |-> param,
   code |-> code, model |-> "", choices |-> <<>>, usage |-> NoUsage]

\* sendError
sendError(status, errType, param, code) ==
  [status |-> status, kind |-> "error", type |-> errType, param |-> param,
   code |-> code, model |-> "", choices |-> <<>>, usage |-> NoUsage]

\* the checks with the messages check left out
ChatValidateNoMessages(rq) ==
  IF rq.method # "POST"
    THEN sendError(405, "invalid_request_error", Nil, Nil)
  ELSE IF ~rq.decodable
    THEN sendError(400, "invalid_request_error", Some("body"), Nil)
  ELSE IF rq.model = ""
    THEN sendError(400, "invalid_request_error", Some("model"), Nil)
  ELSE NoResp

\* the checks with messages looked at before model
ChatValidateMessagesFirst(rq) ==
  IF rq.method # "POST"
    THEN sendError(405, "invalid_request_error", Nil, Nil)
  ELSE IF ~rq.decodable
    THEN sendError(400, "invalid_request_error", Some("body"), Nil)
  ELSE IF Len(rq.messages) = 0
    THEN sendError(400, "invalid_request_error", Some("messages"), Nil)
  ELSE IF rq.model = ""
    THEN sendError(400, "invalid_request_error", Some("model"), Nil)
  ELSE NoResp

\* the checks of chatCompletionsHandler before any synthesis, in code order:
\* the error response of the first failing check, or NoResp when all pass
ChatValidate(rq) ==
  IF rq.method # "POST"
    THEN sendError(405, "invalid_request_error", Nil, Nil)
  ELSE IF ~rq.decodable
    THEN sendError(400, "invalid_request_error", Some("body"), Nil)
  ELSE IF rq.model = ""
    THEN sendError(400, "invalid_request_error", Some("model"), Nil)
  ELSE IF Len(rq.messages) = 0
    THEN sendError(400, "invalid_request_error", Some("messages"), Nil)
  ELSE NoResp

\* shouldUseTool taking any string for a demand
shouldUseToolAnyString(rq, rnd) ==
  IF rq.tool_choice.t \in {"string", "map"} THEN TRUE ELSE rnd

\* shouldUseTool honouring only "required"
shouldUseToolRequiredOnly(rq, rnd) ==
  IF rq.tool_choice.t = "string"
    THEN rq.tool_choice.v = "required"
  ELSE IF rq.tool_choice.t = "map"
    THEN TRUE
  ELSE rnd

\* shouldUseTool; rnd is the outcome of rand.Float32() < 0.3
shouldUseTool(rq, rnd) ==
  IF rq.tool_choice.t = "string"
    THEN rq.tool_choice.v = "required" \/ rq.tool_choice.v = "auto"
  ELSE IF rq.tool_choice.t = "map"
    THEN TRUE
  ELSE rnd

\* whether shouldUseTool draws a random number
ToolDrawsRandom(rq) == rq.tool_choice.t \notin {"string", "map"}

\* the assistant message of a non-streaming response and its finish reason
ToolMessage(rq, callId) ==
  [role |-> "assistant", content |-> [Text |-> <<>>, Parts |-> <<>>],
   tool_calls |-> << [id |-> callId, type |-> "function", name |-> rq.tools[1],
                      arguments |-> "{\"mock\": \"arguments\"}"] >>]

TextMessage(idx) ==
  [role |-> "assistant", content |-> [Text |-> mockResponses[idx], Parts |-> <<>>],
   tool_calls |-> <<>>]

\* n := 1; if req.N != nil && *req.N > 0 { n = *req.N }
NumChoices(rq) == IF rq.n # Nil /\ rq.n[1] > 0 THEN rq.n[1] ELSE 1

\* choices whose finish reason is kept only in the first
MakeChoicesStopAfterFirst(n, msg, finishReason) ==
  [k \in 1..n |-> [index |-> k - 1, message |-> msg,
                   finish_reason |-> IF k = 1 THEN finishReason ELSE "stop"]]

\* choices := make([]ChatChoice, n); for i := 0; i < n; i++ { ... }
MakeChoices(n, msg, finishReason) ==
  [k \in 1..n |-> [index |-> k - 1, message |-> msg, finish_reason |-> finishReason]]

RECURSIVE PromptTokens(_)
PromptTokens(msgs) ==
  IF msgs = <<>> THEN 0
  ELSE estimateTokens(GetText(Head(msgs).content)) + PromptTokens(Tail(msgs))

\* usage that forgets to multiply by n
MakeUsageSingle(promptTokens, completionTokens, n) ==
  [prompt_tokens |-> promptTokens,
   completion_tokens |-> completionTokens,
   total_tokens |-> promptTokens + completionTokens]

MakeUsage(promptTokens, completionTokens, n) ==
  [prompt_tokens |-> promptTokens,
   completion_tokens |-> completionTokens * n,
   total_tokens |-> promptTokens + completionTokens * n]

\* the non-streaming success response (lines 605-675)
ChatCompletion(rq, useTool, idx, callId) ==
  LET msg == IF useTool THEN ToolMessage(rq, callId) ELSE TextMessage(idx)
      fr  == IF useTool THEN "tool_calls" ELSE "stop"
      n   == NumChoices(rq)
  IN [status |-> 200, kind |-> "completion", type |-> "", param |-> Nil, code |-> Nil,
      model |-> rq.model,
      choices |-> MakeChoices(n, msg, fr),
      usage |-> MakeUsage(PromptTokens(rq.messages),
                          estimateTokens(GetText(msg.content)), n)]

\* ---- streaming frames ---------------------------------------------------
\* hd holds completionID, created and fingerprint; the one choice of a chunk
\* is given by index, role, content and finish_reason
Chunk(hd, model, role, content, finish) ==
  [kind |-> "chunk", id |-> hd.id, created |-> hd.created,
   system_fingerprint |-> hd.fingerprint, model |-> model, index |-> 0,
   role |-> role, content |-> content, finish_reason |-> finish]

InitialChunk(hd, model) == Chunk(hd, model, Some("assistant"), Nil, Nil)

\* a separator after every word, the last included
DeltaContentAlwaysSpace(words, i) == words[i] \o <<" ">>

\* content := word; if i < len(words)-1 { content += " " }   (i is 1-based here)
DeltaContent(words, i) == IF i < Len(words) THEN words[i] \o <<" ">> ELSE words[i]

ContentChunk(hd, model, words, i) ==
  Chunk(hd, model, Nil, Some(DeltaContent(words, i)), Nil)

\* a final chunk without its finish reason
FinalChunkNoReason(hd, model) == Chunk(hd, model, Nil, Nil, Nil)

FinalChunk(hd, model) == Chunk(hd, model, Nil, Nil, Some("stop"))

DoneEvent == [kind |-> "done", id |-> "", created |-> 0, system_fingerprint |-> "",
              model |-> "", index |-> 0,
              role |-> Nil, content |-> Nil, finish_reason |-> Nil]

\* ---- per-request state --------------------------------------------------
\*  pc        position of the handler
\*  req       the decoded request
\*  connected whether the client is still reading the response
\*  resp      the buffered (non-SSE) response written, if any
\*  wire      SSE events delivered to the client, in order
\*  id, idx, i   completion id, index of the chosen canned reply, loop index
\*  created, fingerprint   the locals of handleStreamingChat of these names
\*  now       the clock, in seconds
\*  synth     what synthesis did: "reply" (canned reply drawn), "tool"
\*            (shouldUseTool called), "stream" (an SSE event write attempted)
\*  failed    a write to the client has failed
\*  afterFail what the handler did after a failed write ("write", "sleep")
ChatIdle ==
  [pc |-> "idle", req |-> NoReq, connected |-> FALSE, resp |-> NoResp,
   wire |-> <<>>, id |-> "", created |-> 0, fingerprint |-> "", now |-> 0,
   idx |-> 0, i |-> 0, synth |-> {},
   failed |-> FALSE, afterFail |-> {}]

\* sendSSEChunk / fmt.Fprintf + Flush: the write error is discarded
Emit(c, frame) ==
  [c EXCEPT !.wire = IF c.connected THEN Append(c.wire, frame) ELSE c.wire,
            !.failed = c.failed \/ ~c.connected,
            !.afterFail = IF c.failed THEN c.afterFail \cup {"write"} ELSE c.afterFail,
            !.synth = c.synth \cup {"stream"}]

\* time.Sleep(50 * time.Millisecond)
Pace(c) ==
  [c EXCEPT !.afterFail = IF c.failed THEN c.afterFail \cup {"sleep"} ELSE c.afterFail]

\* strings.Fields of each canned reply
mockWords == [k \in 1..Len(mockResponses) |-> Fields(mockResponses[k])]

\* every stream spelling the first canned reply
WordsOfFirst(c) == mockWords[1]

Words(c) == mockWords[c.idx]

\* a chunk header stamped with the time of the write
HeaderStampedNow(c) == [id |-> c.id, created |-> c.now, fingerprint |-> c.fingerprint]

\* completionID, created, fingerprint: set once before the first chunk
Header(c) == [id |-> c.id, created |-> c.created, fingerprint |-> c.fingerprint]

\* a request arrives on a live connection
ChatReceive(r) ==
  /\ chat[r].pc = "idle"
  /\ \E rq \in ChatRequests :
       chat' = [chat EXCEPT ![r] = [ChatIdle EXCEPT !.pc = "received", !.req = rq,
                                                   !.connected = TRUE]]
  /\ UNCHANGED notChat

\* the streaming requests of concurrent clients
StreamRequests ==
  {rq \in ChatRequests :
     /\ rq.method = "POST" /\ rq.decodable /\ rq.model # "" /\ rq.messages # <<>>
     /\ rq.stream /\ rq.flusher
     /\ rq.n = Nil /\ rq.tools = <<>> /\ rq.tool_choice.t = "nil"}

\* a streaming request arrives on a live connection
ChatReceiveStream(r) ==
  /\ chat[r].pc = "idle"
  /\ \E rq \in StreamRequests :
       chat' = [chat EXCEPT ![r] = [ChatIdle EXCEPT !.pc = "received", !.req = rq,
                                                   !.connected = TRUE]]
  /\ UNCHANGED notChat

\* the client goes away while its request is being served
ChatClientDisconnect(r) ==
  /\ chat[r].pc \notin {"idle", "completed"}
  /\ chat[r].connected
  /\ chat' = [chat EXCEPT ![r].connected = FALSE]
  /\ UNCHANGED notChat

\* chatCompletionsHandler: validation error
ChatReject(r) ==
  /\ chat[r].pc = "received"
  /\ ChatValidate(chat[r].req) # NoResp
  /\ chat' = [chat EXCEPT ![r].pc = "completed", ![r].resp = ChatValidate(chat[r].req)]
  /\ UNCHANGED notChat

\* chatCompletionsHandler: non-streaming response
ChatRespond(r) ==
  LET c == chat[r] rq == c.req IN
  /\ c.pc = "received"
  /\ ChatValidate(rq) = NoResp
  /\ ~rq.stream
  /\ \E rnd \in BOOLEAN, idx \in 1..Len(mockResponses), callId \in IdPool :
       LET asked   == Len(rq.tools) > 0
           useTool == asked /\ shouldUseTool(rq, rnd)
       IN /\ (asked /\ ToolDrawsRandom(rq)) \/ rnd = FALSE
          /\ useTool => idx = 1
          /\ ~useTool => callId = "u1"
          /\ chat' = [chat EXCEPT ![r] =
                [c EXCEPT !.pc = "completed",
                          !.resp = ChatCompletion(rq, useTool, idx, callId),
                          !.idx = IF useTool THEN 0 ELSE idx,
                          !.synth = (IF asked THEN {"tool"} ELSE {})
                                      \cup (IF useTool THEN {} ELSE {"reply"})]]
  /\ UNCHANGED notChat

\* a capability check that always succeeds
StreamCapableAlways(rq) == TRUE

\* flusher, ok := w.(http.Flusher)
StreamCapable(rq) == rq.flusher

\* handleStreamingChat when the writer is no http.Flusher
ChatStreamUnsupported(r) ==
  LET c == chat[r] rq == c.req IN
  /\ c.pc = "received"
  /\ ChatValidate(rq) = NoResp
  /\ rq.stream /\ ~StreamCapable(rq)
  /\ chat' = [chat EXCEPT ![r].pc = "completed",
                          ![r].resp = sendError(500, "server_error", Nil, Nil)]
  /\ UNCHANGED notChat

\* handleStreamingChat up to and including the role chunk
ChatStreamStart(r) ==
  LET c == chat[r] rq == c.req IN
  /\ c.pc = "received"
  /\ ChatValidate(rq) = NoResp
  /\ rq.stream /\ StreamCapable(rq)
  /\ \E id \in IdPool, fp \in Fingerprints, idx \in 1..Len(mockResponses) :
       LET c1 == [c EXCEPT !.id = id, !.created = c.now, !.fingerprint = fp,
                           !.idx = idx, !.i = 1,
                           !.synth = {"reply"},
                           !.pc = IF Len(mockWords[idx]) = 0
                                    THEN "finish" ELSE "sleep"]
       IN chat' = [chat EXCEPT ![r] = Emit(c1, InitialChunk(Header(c1), rq.model))]
  /\ UNCHANGED notChat

\* the pacing delay before a word
ChatStreamSleep(r) ==
  /\ chat[r].pc = "sleep"
  /\ chat' = [chat EXCEPT ![r] = [Pace(chat[r]) EXCEPT !.pc = "word"]]
  /\ UNCHANGED notChat

\* a second passes while a response is being streamed
ChatTick(r) ==
  /\ chat[r].pc \in {"sleep", "word", "finish", "done"}
  /\ chat[r].now < MaxNow
  /\ chat' = [chat EXCEPT ![r].now = @ + 1]
  /\ UNCHANGED notChat

\* one content delta
ChatStreamWord(r) ==
  LET c == chat[r] IN
  /\ c.pc = "word"
  /\ chat' = [chat EXCEPT ![r] =
        [Emit(c, ContentChunk(Header(c), c.req.model, Words(c), c.i))
           EXCEPT !.i = c.i + 1,
                  !.pc = IF c.i < Len(Words(c)) THEN "sleep" ELSE "finish"]]
  /\ UNCHANGED notChat

\* the finish chunk
ChatStreamFinish(r) ==
  LET c == chat[r] IN
  /\ c.pc = "finish"
  /\ chat' = [chat EXCEPT ![r] =
        [Emit(c, FinalChunk(Header(c), c.req.model)) EXCEPT !.pc = "done"]]
  /\ UNCHANGED notChat

\* data: [DONE]
ChatStreamDone(r) ==
  LET c == chat[r] IN
  /\ c.pc = "done"
  /\ chat' = [chat EXCEPT ![r] = [Emit(c, DoneEvent) EXCEPT !.pc = "completed"]]
  /\ UNCHANGED notChat

ChatStep(r) ==
  \/ ChatReceive(r)
  \/ ChatClientDisconnect(r)
  \/ ChatReject(r)
  \/ ChatRespond(r)
  \/ ChatStreamUnsupported(r)
  \/ ChatStreamStart(r)
  \/ ChatStreamSleep(r)
  \/ ChatTick(r)
  \/ ChatStreamWord(r)
  \/ ChatStreamFinish(r)
  \/ ChatStreamDone(r)

\* the steps of one of several streaming requests, each served by its own
\* goroutine
StreamStep(r) ==
  \/ ChatStreamStart(r)
  \/ ChatStreamSleep(r)
  \/ ChatStreamWord(r)
  \/ ChatStreamFinish(r)
  \/ ChatStreamDone(r)

\* the steps of chatCompletionsHandler once the request has been handed to it
ChatHandlerStep(r) ==
  \/ ChatClientDisconnect(r)
  \/ ChatReject(r)
  \/ ChatRespond(r)
  \/ ChatStreamUnsupported(r)
  \/ ChatStreamStart(r)
  \/ ChatStreamSleep(r)
  \/ ChatStreamWord(r)
  \/ ChatStreamFinish(r)
  \/ ChatStreamDone(r)

\* =========================================================================
\*  Transport relay, tunnel mode: ProxyServer.handleConnect
\* =========================================================================
Bytes == {0, 1}

\*  pc         position of handleConnect: idle, dial, hijack, write200, spawn,
\*             wait (<-done), returned
\*  dialOK, hijacker, hijackOK   what the environment will answer
\*  dials      connection attempts made
\*  httpResp   status codes written through the http.ResponseWriter
\*  tconn      the proxy's end of the target connection: none, open, closed
\*  cconn      the proxy's end of the client connection: http, hijacked, closed
\*  c200       the 200 Connection Established line reached the client
\*  cSent/tSent   bytes the client / the target wrote into the tunnel
\*  c2p/t2p    bytes written by a peer and not yet read by the proxy
\*  cRecv/tRecv   bytes delivered to the client / to the target
\*  cEOF/tEOF  the peer closed its sending side
\*  cGone/tGone   the peer closed the whole connection
\*  g1, g2     the copy tasks client->target and target->client:
\*             pc in none, read, write, signal, exit; buf the chunk read
\*  done       signals waiting in the done channel (capacity 2)
TunIdle ==
  [pc |-> "idle", dialOK |-> FALSE, hijacker |-> FALSE, hijackOK |-> FALSE,
   dials |-> 0, httpResp |-> <<>>, tconn |-> "none", cconn |-> "http",
   c200 |-> FALSE, cSent |-> <<>>, tSent |-> <<>>, c2p |-> <<>>, t2p |-> <<>>,
   cRecv |-> <<>>, tRecv |-> <<>>, cEOF |-> FALSE, tEOF |-> FALSE,
   cGone |-> FALSE, tGone |-> FALSE,
   g1 |-> [pc |-> "none", buf |-> <<>>], g2 |-> [pc |-> "none", buf |-> <<>>],
   done |-> 0]

\* the deferred Close calls run by a return; a connection not yet opened or
\* taken over has no deferred Close
DeferredCloseClientOnly(t) ==
  [t EXCEPT !.cconn = IF t.cconn = "hijacked" THEN "closed" ELSE t.cconn]

DeferredClose(t) ==
  [t EXCEPT !.cconn = IF t.cconn = "hijacked" THEN "closed" ELSE t.cconn,
            !.tconn = IF t.tconn = "open" THEN "closed" ELSE t.tconn]

\* Read of io.Copy hands over the bytes at the reader's end of the pipe
\* and leaves the rest
CopyReadKeepsAll(q, k) == [chunk |-> SubSeq(q, 1, k), rest |-> q]

CopyRead(q, k) == [chunk |-> SubSeq(q, 1, k), rest |-> SubSeq(q, k + 1, Len(q))]

\* a CONNECT request arrives
TunRequest ==
  /\ tun.pc = "idle"
  /\ \E d \in BOOLEAN, h \in BOOLEAN, ho \in BOOLEAN :
       tun' = [tun EXCEPT !.pc = "dial", !.dialOK = d, !.hijacker = h, !.hijackOK = ho]
  /\ UNCHANGED notTun

\* a relay that dials once more before it gives up
DialFailedRetry(t) ==
  [t EXCEPT !.pc = "returned", !.dials = @ + 2, !.httpResp = Append(@, 503)]

\* the dial failed: http.Error 503 and return
DialFailed(t) ==
  [t EXCEPT !.pc = "returned", !.dials = @ + 1, !.httpResp = Append(@, 503)]

\* net.DialTimeout; on failure 503 and return
TunDial ==
  /\ tun.pc = "dial"
  /\ tun' = IF tun.dialOK
              THEN [tun EXCEPT !.pc = "hijack", !.dials = @ + 1, !.tconn = "open"]
              ELSE DialFailed(tun)
  /\ UNCHANGED notTun

\* w.(http.Hijacker) and hijacker.Hijack()
TunHijack ==
  /\ tun.pc = "hijack"
  /\ tun' = IF ~tun.hijacker
              THEN DeferredClose([tun EXCEPT !.pc = "returned",
                                             !.httpResp = Append(@, 500)])
            ELSE IF ~tun.hijackOK
              THEN DeferredClose([tun EXCEPT !.pc = "returned",
                                             !.httpResp = Append(@, 503)])
            ELSE [tun EXCEPT !.pc = "write200", !.cconn = "hijacked"]
  /\ UNCHANGED notTun

\* clientConn.Write("HTTP/1.1 200 Connection Established\r\n\r\n")
TunWrite200 ==
  /\ tun.pc = "write200"
  /\ tun' = IF tun.cGone
              THEN DeferredClose([tun EXCEPT !.pc = "returned"])
              ELSE [tun EXCEPT !.pc = "spawn", !.c200 = TRUE]
  /\ UNCHANGED notTun

\* done := make(chan struct{}, 2); go ...; go ...
TunSpawn ==
  /\ tun.pc = "spawn"
  /\ tun' = [tun EXCEPT !.pc = "wait", !.g1.pc = "read", !.g2.pc = "read"]
  /\ UNCHANGED notTun

\* io.Copy(targetConn, clientConn): Read from the client connection
G1Read ==
  /\ tun.g1.pc = "read"
  /\ \/ /\ tun.cconn = "closed"
        /\ tun' = [tun EXCEPT !.g1.pc = "signal"]
     \/ /\ tun.cconn # "closed" /\ tun.c2p # <<>>
        /\ \E k \in 1..Len(tun.c2p) :
             tun' = [tun EXCEPT !.g1 = [pc |-> "write", buf |-> CopyRead(tun.c2p, k).chunk],
                                !.c2p = CopyRead(tun.c2p, k).rest]
     \/ /\ tun.cconn # "closed" /\ tun.c2p = <<>> /\ (tun.cEOF \/ tun.cGone)
        /\ tun' = [tun EXCEPT !.g1.pc = "signal"]
  /\ UNCHANGED notTun

\* io.Copy(targetConn, clientConn): Write to the target connection
G1Write ==
  /\ tun.g1.pc = "write"
  /\ tun' = IF tun.tconn = "closed" \/ tun.tGone
              THEN [tun EXCEPT !.g1 = [pc |-> "signal", buf |-> <<>>]]
              ELSE [tun EXCEPT !.g1 = [pc |-> "read", buf |-> <<>>],
                               !.tRecv = @ \o tun.g1.buf]
  /\ UNCHANGED notTun

\* done <- struct{}{} of the first task
G1Signal ==
  /\ tun.g1.pc = "signal"
  /\ tun.done < 2
  /\ tun' = [tun EXCEPT !.g1.pc = "exit", !.done = @ + 1]
  /\ UNCHANGED notTun

\* io.Copy(clientConn, targetConn): Read from the target connection
G2Read ==
  /\ tun.g2.pc = "read"
  /\ \/ /\ tun.tconn = "closed"
        /\ tun' = [tun EXCEPT !.g2.pc = "signal"]
     \/ /\ tun.tconn # "closed" /\ tun.t2p # <<>>
        /\ \E k \in 1..Len(tun.t2p) :
             tun' = [tun EXCEPT !.g2 = [pc |-> "write", buf |-> CopyRead(tun.t2p, k).chunk],
                                !.t2p = CopyRead(tun.t2p, k).rest]
     \/ /\ tun.tconn # "closed" /\ tun.t2p = <<>> /\ (tun.tEOF \/ tun.tGone)
        /\ tun' = [tun EXCEPT !.g2.pc = "signal"]
  /\ UNCHANGED notTun

\* io.Copy(clientConn, targetConn): Write to the client connection
G2Write ==
  /\ tun.g2.pc = "write"
  /\ tun' = IF tun.cconn = "closed" \/ tun.cGone
              THEN [tun EXCEPT !.g2 = [pc |-> "signal", buf |-> <<>>]]
              ELSE [tun EXCEPT !.g2 = [pc |-> "read", buf |-> <<>>],
                               !.cRecv = @ \o tun.g2.buf]
  /\ UNCHANGED notTun

\* done <- struct{}{} of the second task
G2Signal ==
  /\ tun.g2.pc = "signal"
  /\ tun.done < 2
  /\ tun' = [tun EXCEPT !.g2.pc = "exit", !.done = @ + 1]
  /\ UNCHANGED notTun

\* <-done, then return: the deferred Close calls run
TunReturn ==
  /\ tun.pc = "wait"
  /\ tun.done > 0
  /\ tun' = DeferredClose([tun EXCEPT !.pc = "returned", !.done = @ - 1])
  /\ UNCHANGED notTun

\* ---- the two peers ------------------------------------------------------
\* the client writes a byte into the tunnel once it has seen the 200 line
ClientSend ==
  /\ tun.c200 /\ ~tun.cEOF /\ ~tun.cGone
  /\ Len(tun.cSent) < MaxSent
  /\ \E b \in Bytes :
       tun' = [tun EXCEPT !.cSent = Append(@, b), !.c2p = Append(@, b)]
  /\ UNCHANGED notTun

\* the client closes its sending side
ClientShutdown ==
  /\ tun.c200 /\ ~tun.cEOF /\ ~tun.cGone
  /\ tun' = [tun EXCEPT !.cEOF = TRUE]
  /\ UNCHANGED notTun

\* the client drops the connection
ClientAbort ==
  /\ tun.pc \notin {"idle", "returned"} /\ ~tun.cGone
  /\ tun' = [tun EXCEPT !.cGone = TRUE]
  /\ UNCHANGED notTun

\* the target writes a byte
TargetSend ==
  /\ tun.tconn # "none" /\ ~tun.tEOF /\ ~tun.tGone
  /\ Len(tun.tSent) < MaxSent
  /\ \E b \in Bytes :
       tun' = [tun EXCEPT !.tSent = Append(@, b), !.t2p = Append(@, b)]
  /\ UNCHANGED notTun

\* the target closes its sending side
TargetShutdown ==
  /\ tun.tconn # "none" /\ ~tun.tEOF /\ ~tun.tGone
  /\ tun' = [tun EXCEPT !.tEOF = TRUE]
  /\ UNCHANGED notTun

\* the target drops the connection
TargetAbort ==
  /\ tun.tconn = "open" /\ ~tun.tGone
  /\ tun' = [tun EXCEPT !.tGone = TRUE]
  /\ UNCHANGED notTun

NextTunnel ==
  \/ TunRequest
  \/ TunDial
  \/ TunHijack
  \/ TunWrite200
  \/ TunSpawn
  \/ G1Read
  \/ G1Write
  \/ G1Signal
  \/ G2Read
  \/ G2Write
  \/ G2Signal
  \/ TunReturn
  \/ ClientSend
  \/ ClientShutdown
  \/ ClientAbort
  \/ TargetSend
  \/ TargetShutdown
  \/ TargetAbort

\* =========================================================================
\*  Transport relay, forward mode: headers (copyHeaders,
\*  removeHopByHopHeaders, X-Forwarded-*)
\* =========================================================================
hopByHopHeaders ==
  << "Connection", "Keep-Alive", "Proxy-Authenticate", "Proxy-Authorization",
     "Te", "Trailers", "Transfer-Encoding", "Upgrade" >>

HopNames == {hopByHopHeaders[i] : i \in 1..Len(hopByHopHeaders)}

XFF == "X-Forwarded-For"

\* the header names that occur; an http.Header maps each name to its list
\* of values, the empty list standing for an absent name
HeaderNames ==
  HopNames \cup {"Accept", "Content-Type", "Location", XFF,
                 "X-Forwarded-Host", "X-Forwarded-Proto"}

EmptyHeader == [k \in HeaderNames |-> <<>>]

\* the value lists a present header may carry: one line, or two lines
HeaderValue(name, choice) ==
  IF name = XFF
    THEN IF choice = 1 THEN << <<"a", "1">> >>
         ELSE << <<"a", "1">>, <<"b", "2", ",", " ", "c", "3">> >>
    ELSE IF choice = 1 THEN << <<"v">> >>
         ELSE << <<"v">>, <<"w">> >>

\* header sets with at most MaxHdr names present
HeaderSets ==
  UNION { { [k \in HeaderNames |-> IF k \in S THEN HeaderValue(k, ch[k]) ELSE <<>>]
              : ch \in [S -> 1..2] }
          : S \in {T \in SUBSET HeaderNames : Cardinality(T) <= MaxHdr} }

\* http.Header.Get: the first value, "" when absent
Get(h, name) == IF h[name] = <<>> THEN <<>> ELSE h[name][1]

\* http.Header.Set
Set(h, name, value) == [h EXCEPT ![name] = <<value>>]

\* copyHeaders: dst.Add(key, value) for every value of every key
copyHeaders(dst, src) == [k \in HeaderNames |-> dst[k] \o src[k]]

\* a strip that forgets the last name of the list
removeAllButLast(header) ==
  [k \in HeaderNames |->
     IF \E i \in 1..(Len(hopByHopHeaders) - 1) : hopByHopHeaders[i] = k
       THEN <<>> ELSE header[k]]

\* removeHopByHopHeaders: header.Del(h) for every listed name
removeHopByHopHeaders(header) ==
  [k \in HeaderNames |->
     IF \E i \in 1..Len(hopByHopHeaders) : hopByHopHeaders[i] = k
       THEN <<>> ELSE header[k]]

\* net.SplitHostPort on host:port (no brackets): the text before the last
\* colon; an address without a colon does not parse
SplitHostPort(addr) ==
  LET colons == {i \in 1..Len(addr) : addr[i] = ":"}
      last == CHOOSE i \in colons : \A j \in colons : j <= i
  IN IF colons = {} THEN [ok |-> FALSE, host |-> <<>>]
     ELSE [ok |-> TRUE, host |-> SubSeq(addr, 1, last - 1)]

RemoteAddrs == { <<"c", "9", ":", "8", "0">>, <<"c", "9">> }

Hosts == { <<"h", ".", "x">>, <<"h", ".", "x", ":", "8", "1">> }

\* the headers of the outbound request (lines 1161-1175)
OutboundHeaders(h, host, remoteAddr) ==
  LET h1 == removeHopByHopHeaders(copyHeaders(EmptyHeader, h))
      sp == SplitHostPort(remoteAddr)
      prior == Get(h1, XFF)
      h2 == IF sp.ok
              THEN Set(h1, XFF, IF prior # <<>> THEN prior \o <<",", " ">> \o sp.host
                                ELSE sp.host)
              ELSE h1
  IN Set(Set(h2, "X-Forwarded-Host", host), "X-Forwarded-Proto", <<"h", "t", "t", "p">>)

\* the response headers handed to the client (lines 1201-1203)
RelayedHeaders(h) == removeHopByHopHeaders(copyHeaders(EmptyHeader, h))

\*  pc      idle; req, sent (request side); resp, relayed (response side)
\*  inHdr   the inbound request headers, or the upstream response headers
\*  host, remoteAddr   r.Host and r.RemoteAddr
\*  outHdr  the outbound request headers, or the headers given to the client
HdrIdle ==
  [pc |-> "idle", inHdr |-> EmptyHeader, host |-> <<>>, remoteAddr |-> <<>>,
   outHdr |-> EmptyHeader]

\* an inbound request with its headers
HdrRequest ==
  /\ hdr.pc = "idle"
  /\ \E h \in HeaderSets, host \in Hosts, ra \in RemoteAddrs :
       hdr' = [hdr EXCEPT !.pc = "req", !.inHdr = h, !.host = host, !.remoteAddr = ra]
  /\ UNCHANGED notHdr

\* handleHTTP builds the outbound request
HdrOutbound ==
  /\ hdr.pc = "req"
  /\ hdr' = [hdr EXCEPT !.pc = "sent",
                        !.outHdr = OutboundHeaders(hdr.inHdr, hdr.host, hdr.remoteAddr)]
  /\ UNCHANGED notHdr

\* an upstream response with its headers
HdrResponse ==
  /\ hdr.pc = "idle"
  /\ \E h \in HeaderSets : hdr' = [hdr EXCEPT !.pc = "resp", !.inHdr = h]
  /\ UNCHANGED notHdr

\* handleHTTP fills w.Header()
HdrRelay ==
  /\ hdr.pc = "resp"
  /\ hdr' = [hdr EXCEPT !.pc = "relayed", !.outHdr = RelayedHeaders(hdr.inHdr)]
  /\ UNCHANGED notHdr

NextHeaders ==
  \/ HdrRequest
  \/ HdrOutbound
  \/ HdrResponse
  \/ HdrRelay

\* =========================================================================
\*  Transport relay, forward mode: ProxyServer.handleHTTP / streamResponse
\* =========================================================================
Min(a, b) == IF a < b THEN a ELSE b

\*  pc        idle, do (client.Do), read / write / flush (the copy loop),
\*            returned
\*  upOK, ctype, flusher, status   what upstream and the writer will answer
\*  respHdr   the headers of upstream's response; wHdr those given to the
\*            client
\*  isSSE     the relay's verdict on the Content-Type
\*  mode      "stream" (flush per read) or "bulk" (io.Copy)
\*  upReqs    upstream requests issued
\*  httpStatus   status written to the client (0: none yet)
\*  upSent    body bytes upstream has written; up2p those not yet read
\*  upEOF/upErr  upstream ended the body / the body broke
\*  buf, rerr the chunk and the error ("nil", "eof", "err") of the last Read
\*  reads     the chunks returned by Read with n > 0, in order
\*  writes    the chunks handed to w.Write, in order
\*  flushes   calls of flusher.Flush
\*  wbuf      bytes written and not yet pushed to the client
\*  deliv     the separate deliveries the client has seen, in order
\*  cGone     the client dropped the connection
\*  wfailed   a w.Write returned an error
\*  afterFail what the copy did after a failed write
FwdIdle ==
  [pc |-> "idle", upOK |-> FALSE, ctype |-> <<>>, isSSE |-> FALSE, flusher |-> FALSE,
   status |-> 0, respHdr |-> EmptyHeader, wHdr |-> EmptyHeader,
   mode |-> "", upReqs |-> 0, httpStatus |-> 0,
   upSent |-> <<>>, up2p |-> <<>>, upEOF |-> FALSE, upErr |-> FALSE,
   buf |-> <<>>, rerr |-> "nil", reads |-> <<>>, writes |-> <<>>, flushes |-> 0,
   wbuf |-> <<>>, deliv |-> <<>>, cGone |-> FALSE, wfailed |-> FALSE,
   afterFail |-> {}]

\* strings.Contains
Contains(s, sub) ==
  \E i \in 0..(Len(s) - Len(sub)) : SubSeq(s, i + 1, i + Len(sub)) = sub

EventStreamType == <<"t", "e", "x", "t", "/", "e", "v", "e", "n", "t", "-", "s", "t", "r", "e", "a", "m">>

EventStreamCharset ==
  EventStreamType \o <<";", " ", "c", "h", "a", "r", "s", "e", "t", "=", "u", "t", "f", "-", "8">>

\* values of the upstream Content-Type header (empty: no such header)
ContentTypes ==
  { <<>>,
    <<"a", "p", "p", "l", "i", "c", "a", "t", "i", "o", "n", "/", "j", "s", "o", "n">>,
    EventStreamType,
    EventStreamCharset }

\* isSSE := strings.Contains(resp.Header.Get("Content-Type"), "text/event-stream")
IsSSE(ctype) == Contains(ctype, EventStreamType)

\* a relay that never takes the flush-per-read path
RelayModeBulk(isSSE, flusher) == "bulk"

\* handleHTTP picks streamResponse for an event stream; streamResponse
\* falls back to io.Copy when the writer is no http.Flusher
RelayMode(isSSE, flusher) == IF isSSE /\ flusher THEN "stream" ELSE "bulk"

\* a copy loop that does not look at the write error
AfterWriteIgnoreErr(t, werr) == IF t.mode = "stream" THEN "flush" ELSE "read"

\* where the copy loop goes after w.Write: a write error ends the copy;
\* otherwise streamResponse flushes, and io.Copy looks at the read error
AfterWrite(t, werr) ==
  IF werr THEN "returned"
  ELSE IF t.mode = "stream" THEN "flush"
  ELSE IF t.rerr # "nil" THEN "returned" ELSE "read"

\* what the server pushes to the client when bytes leave the write buffer
Push(t) ==
  [t EXCEPT !.wbuf = <<>>,
            !.deliv = IF t.wbuf # <<>> /\ ~t.cGone THEN Append(t.deliv, t.wbuf)
                      ELSE t.deliv]

\* the handler returns: the server finishes the response, which pushes what
\* is still buffered
Finish(t) == [Push(t) EXCEPT !.pc = "returned"]

\* the statuses upstream answers with
Statuses == {200, 302, 404}

IsRedirect(st) == st \in 300..399

RedirectTarget == <<"/", "n">>

\* the headers of upstream's response: its Content-Type, and a Location on
\* a redirect
ResponseHeader(ct, st) ==
  [EmptyHeader EXCEPT !["Content-Type"] = IF ct = <<>> THEN <<>> ELSE <<ct>>,
                      !["Location"] = IF IsRedirect(st) THEN <<RedirectTarget>> ELSE <<>>]

\* a redirect policy that lets the client follow
CheckRedirectFollow(req, via) == "nil"

\* the client's CheckRedirect: return http.ErrUseLastResponse
CheckRedirect(req, via) == "ErrUseLastResponse"

\* client.Do: one request; on a redirect with a Location the policy is
\* asked, and unless it says ErrUseLastResponse the client requests the
\* target and returns the target's response instead
ClientDo(t) ==
  IF ~t.upOK THEN [err |-> TRUE, reqs |-> 1, status |-> 0, header |-> EmptyHeader]
  ELSE IF /\ IsRedirect(t.status)
          /\ Get(t.respHdr, "Location") # <<>>
          /\ CheckRedirect(Get(t.respHdr, "Location"), 1) # "ErrUseLastResponse"
    THEN [err |-> FALSE, reqs |-> 2, status |-> 200,
          header |-> ResponseHeader(t.ctype, 200)]
  ELSE [err |-> FALSE, reqs |-> 1, status |-> t.status, header |-> t.respHdr]

\* a request other than CONNECT arrives
FwdRequest ==
  /\ fwd.pc = "idle"
  /\ \E ok \in BOOLEAN, ct \in ContentTypes, fl \in BOOLEAN, st \in Statuses :
       fwd' = [fwd EXCEPT !.pc = "do", !.upOK = ok, !.ctype = ct, !.flusher = fl,
                          !.status = st, !.respHdr = ResponseHeader(ct, st)]
  /\ UNCHANGED notFwd

\* client.Do; on error 502; otherwise headers, WriteHeader and the choice
\* of the copy
FwdDo ==
  /\ fwd.pc = "do"
  /\ LET resp == ClientDo(fwd)
         sse == IsSSE(Get(resp.header, "Content-Type"))
     IN fwd' = IF resp.err
                 THEN Finish([fwd EXCEPT !.upReqs = @ + resp.reqs, !.httpStatus = 502])
                 ELSE [fwd EXCEPT !.pc = "read", !.upReqs = @ + resp.reqs,
                                  !.wHdr = RelayedHeaders(resp.header),
                                  !.httpStatus = resp.status,
                                  !.isSSE = sse,
                                  !.mode = RelayMode(sse, fwd.flusher)]
  /\ UNCHANGED notFwd

\* a read that hands over no bytes when it also reports an error
ReadChunkDropOnErr(q, n, e) == IF e # "nil" THEN <<>> ELSE SubSeq(q, 1, n)

\* the n bytes a Read returns, with or without an error
ReadChunk(q, n, e) == SubSeq(q, 1, n)

\* n, err := body.Read(buf)
FwdRead ==
  /\ fwd.pc = "read"
  /\ \/ /\ fwd.up2p # <<>>
        /\ \E n \in 1..Min(Len(fwd.up2p), BufLen), e \in {"nil", "eof", "err"} :
             /\ e = "eof" => (fwd.upEOF /\ n = Len(fwd.up2p))
             /\ e = "err" => (fwd.upErr /\ n = Len(fwd.up2p))
             /\ fwd' = [fwd EXCEPT !.pc = "write",
                                   !.buf = ReadChunk(fwd.up2p, n, e),
                                   !.up2p = SubSeq(fwd.up2p, n + 1, Len(fwd.up2p)),
                                   !.rerr = e,
                                   !.reads = Append(@, ReadChunk(fwd.up2p, n, e)),
                                   !.afterFail = IF fwd.wfailed THEN @ \cup {"read"} ELSE @]
     \/ /\ fwd.up2p = <<>> /\ (fwd.upEOF \/ fwd.upErr)
        /\ fwd' = Finish([fwd EXCEPT !.buf = <<>>,
                                     !.rerr = IF fwd.upEOF THEN "eof" ELSE "err",
                                     !.afterFail = IF fwd.wfailed THEN @ \cup {"read"} ELSE @])
  /\ UNCHANGED notFwd

\* _, writeErr := w.Write(buf[:n]); a write to a client that is gone may
\* still be taken by the buffer or may report the error
FwdWrite ==
  /\ fwd.pc = "write"
  /\ \E werr \in BOOLEAN :
       /\ werr => fwd.cGone
       /\ LET t1 == [fwd EXCEPT !.writes = Append(@, fwd.buf),
                                !.wbuf = IF werr THEN @ ELSE @ \o fwd.buf,
                                !.wfailed = @ \/ werr,
                                !.afterFail = IF fwd.wfailed THEN @ \cup {"write"} ELSE @]
              nxt == AfterWrite(t1, werr)
          IN fwd' = IF nxt = "returned" THEN Finish(t1) ELSE [t1 EXCEPT !.pc = nxt]
  /\ UNCHANGED notFwd

\* flusher.Flush(), then the check of the read error
FwdFlush ==
  /\ fwd.pc = "flush"
  /\ LET t1 == [Push(fwd) EXCEPT !.flushes = @ + 1,
                                 !.afterFail = IF fwd.wfailed THEN @ \cup {"flush"} ELSE @]
     IN fwd' = IF fwd.rerr # "nil" THEN Finish(t1) ELSE [t1 EXCEPT !.pc = "read"]
  /\ UNCHANGED notFwd

\* ---- upstream and client -------------------------------------------------
UpstreamSend ==
  /\ fwd.pc \in {"read", "write", "flush"} /\ ~fwd.upEOF /\ ~fwd.upErr
  /\ Len(fwd.upSent) < MaxBody
  /\ \E b \in Bytes :
       fwd' = [fwd EXCEPT !.upSent = Append(@, b), !.up2p = Append(@, b)]
  /\ UNCHANGED notFwd

UpstreamEnd ==
  /\ fwd.pc \in {"read", "write", "flush"} /\ ~fwd.upEOF /\ ~fwd.upErr
  /\ fwd' = [fwd EXCEPT !.upEOF = TRUE]
  /\ UNCHANGED notFwd

UpstreamBreak ==
  /\ fwd.pc \in {"read", "write", "flush"} /\ ~fwd.upEOF /\ ~fwd.upErr
  /\ fwd' = [fwd EXCEPT !.upErr = TRUE]
  /\ UNCHANGED notFwd

FwdClientAbort ==
  /\ fwd.pc \notin {"idle", "returned"} /\ ~fwd.cGone
  /\ fwd' = [fwd EXCEPT !.cGone = TRUE]
  /\ UNCHANGED notFwd

NextForward ==
  \/ FwdRequest
  \/ FwdDo
  \/ FwdRead
  \/ FwdWrite
  \/ FwdFlush
  \/ UpstreamSend
  \/ UpstreamEnd
  \/ UpstreamBreak
  \/ FwdClientAbort


\* =========================================================================
\*  Inference server: router, modelsHandler, modelByIDHandler,
\*  embeddingsHandler
\* =========================================================================
mockModels ==
  << [id |-> <<"g", "p", "t", "-", "4">>,
      object |-> "model", created |-> 1687882411, owned_by |-> "openai"],
     [id |-> <<"g", "p", "t", "-", "4", "-", "t", "u", "r", "b", "o">>,
      object |-> "model", created |-> 1712361441, owned_by |-> "openai"],
     [id |-> <<"g", "p", "t", "-", "4", "-", "t", "u", "r", "b", "o", "-", "p", "r", "e", "v", "i", "e", "w">>,
      object |-> "model", created |-> 1706037777, owned_by |-> "openai"],
     [id |-> <<"g", "p", "t", "-", "4", "o">>,
      object |-> "model", created |-> 1715367049, owned_by |-> "openai"],
     [id |-> <<"g", "p", "t", "-", "4", "o", "-", "m", "i", "n", "i">>,
      object |-> "model", created |-> 1721172741, owned_by |-> "openai"],
     [id |-> <<"g", "p", "t", "-", "3", ".", "5", "-", "t", "u", "r", "b", "o">>,
      object |-> "model", created |-> 1677610602, owned_by |-> "openai"],
     [id |-> <<"g", "p", "t", "-", "3", ".", "5", "-", "t", "u", "r", "b", "o", "-", "1", "6", "k">>,
      object |-> "model", created |-> 1683758102, owned_by |-> "openai"],
     [id |-> <<"t", "e", "x", "t", "-", "e", "m", "b", "e", "d", "d", "i", "n", "g", "-", "a", "d", "a", "-", "0", "0", "2">>,
      object |-> "model", created |-> 1671217299, owned_by |-> "openai-internal"],
     [id |-> <<"t", "e", "x", "t", "-", "e", "m", "b", "e", "d", "d", "i", "n", "g", "-", "3", "-", "s", "m", "a", "l", "l">>,
      object |-> "model", created |-> 1705948997, owned_by |-> "openai"],
     [id |-> <<"t", "e", "x", "t", "-", "e", "m", "b", "e", "d", "d", "i", "n", "g", "-", "3", "-", "l", "a", "r", "g", "e">>,
      object |-> "model", created |-> 1705953180, owned_by |-> "openai"] >>

ModelIds == {mockModels[i].id : i \in 1..Len(mockModels)}

EmbeddingAda == <<"t", "e", "x", "t", "-", "e", "m", "b", "e", "d", "d", "i", "n", "g", "-", "a", "d", "a", "-", "0", "0", "2">>

Embedding3Small == <<"t", "e", "x", "t", "-", "e", "m", "b", "e", "d", "d", "i", "n", "g", "-", "3", "-", "s", "m", "a", "l", "l">>

Embedding3Large == <<"t", "e", "x", "t", "-", "e", "m", "b", "e", "d", "d", "i", "n", "g", "-", "3", "-", "l", "a", "r", "g", "e">>

ModelsPath == <<"/", "v", "1", "/", "m", "o", "d", "e", "l", "s">>

ModelsPrefix == <<"/", "v", "1", "/", "m", "o", "d", "e", "l", "s", "/">>

EmbeddingsPath == <<"/", "v", "1", "/", "e", "m", "b", "e", "d", "d", "i", "n", "g", "s">>

\* strings.HasPrefix, strings.TrimPrefix, strings.TrimSuffix
HasPrefix(s, prefix) == IsPrefix(prefix, s)

TrimPrefix(s, prefix) ==
  IF HasPrefix(s, prefix) THEN SubSeq(s, Len(prefix) + 1, Len(s)) ELSE s

HasSuffix(s, suffix) ==
  Len(suffix) <= Len(s) /\ SubSeq(s, Len(s) - Len(suffix) + 1, Len(s)) = suffix

TrimSuffix(s, suffix) ==
  IF HasSuffix(s, suffix) THEN SubSeq(s, 1, Len(s) - Len(suffix)) ELSE s

\* the ids asked for: those of the catalog, and some that are not
AskedIds ==
  ModelIds \cup { <<>>, <<"n", "o", "n", "e", "x", "i", "s", "t", "e", "n", "t", "-", "m", "o", "d", "e", "l">>, <<"G", "P", "T", "-", "4">>,
                  <<"g", "p", "t", "-", "4", "x">>, <<"g", "p", "t">>, <<"g", "p", "t", "-", "4", "/", "t", "u", "r", "b", "o">> }

Slashes == { <<>>, <<"/">>, <<"/", "/">> }

ChatPath == <<"/", "v", "1", "/", "c", "h", "a", "t", "/", "c", "o", "m", "p", "l", "e", "t", "i", "o", "n", "s">>

ApiPaths ==
  {ModelsPath, EmbeddingsPath, ChatPath, <<"/", "v", "1", "/", "f", "i", "l", "e", "s">>,
   <<"/">> \o ModelsPath}
    \cup {ModelsPrefix \o id \o sl : id \in AskedIds, sl \in Slashes}

ApiMethods == {"GET", "POST", "OPTIONS"}

\* a lookup that takes a catalog id for a match when it begins the asked id
ModelMatchPrefix(model, modelID) == IsPrefix(model.id, modelID)

\* model.ID == modelID
ModelMatch(model, modelID) == model.id = modelID

\* modelsHandler
modelsHandler(method) ==
  IF method # "GET" THEN sendError(405, "invalid_request_error", Nil, Nil)
  ELSE [status |-> 200, kind |-> "models", object |-> "list", data |-> mockModels]

\* modelByIDHandler: the first catalog entry with the asked id, or 404
modelByIDHandler(method, path) ==
  IF method # "GET" THEN sendError(405, "invalid_request_error", Nil, Nil)
  ELSE LET modelID == TrimSuffix(TrimPrefix(path, ModelsPrefix), <<"/">>)
           hits == {i \in 1..Len(mockModels) : ModelMatch(mockModels[i], modelID)}
           first == CHOOSE i \in hits : \A j \in hits : i <= j
       IN IF hits # {}
            THEN [status |-> 200, kind |-> "model", record |-> mockModels[first]]
            ELSE sendError(404, "invalid_request_error", Nil, Some("model_not_found"))

\* ------------------------------------------------------------- embeddings
DefaultDimensions == 1536

LargeDimensions == 3072

TextA == <<"h", "e", "l", "l", "o", " ", "w", "o", "r", "l", "d">>

TextB == <<"h", "i">>

StringItem(text) == [t |-> "string", v |-> text]

NumberItem == [t |-> "number", v |-> <<>>]

\* the decoded "input": absent, a string, an array, or another JSON value
EmbedInputs ==
  { [t |-> "nil", v |-> <<>>],
    [t |-> "string", v |-> TextA],
    [t |-> "array", v |-> <<StringItem(TextA), StringItem(TextB)>>],
    [t |-> "array", v |-> <<NumberItem, StringItem(TextA)>>],
    [t |-> "array", v |-> <<>>],
    [t |-> "number", v |-> <<>>] }

EmbedModels == { <<>>, EmbeddingAda, Embedding3Small, Embedding3Large, mockModels[1].id }

DimensionValues == {Nil, Some(-1), Some(0), Some(2)}

NoBody ==
  [decodable |-> TRUE, model |-> <<>>, input |-> [t |-> "nil", v |-> <<>>],
   dimensions |-> Nil]

EmbedBodies ==
  { [NoBody EXCEPT !.decodable = FALSE] }
    \cup [decodable : {TRUE}, model : EmbedModels, input : EmbedInputs,
          dimensions : DimensionValues]

\* custom dimensions taken for every model
DimensionsAnyModel(rq) ==
  IF rq.dimensions # Nil THEN rq.dimensions[1]
  ELSE IF rq.model = Embedding3Large THEN LargeDimensions ELSE DefaultDimensions

\* "Determine embedding dimensions"
Dimensions(rq) ==
  IF rq.dimensions # Nil /\ rq.model \in {Embedding3Small, Embedding3Large}
    THEN rq.dimensions[1]
  ELSE IF rq.model = Embedding3Large THEN LargeDimensions ELSE DefaultDimensions

\* a parse that keeps only the first string of an array
ParseInputsFirstOnly(input) ==
  IF input.t = "string" THEN <<input.v>>
  ELSE IF input.t = "array"
    THEN LET strs == SelectSeq(input.v, LAMBDA it : it.t = "string")
         IN IF strs = <<>> THEN <<>> ELSE <<strs[1].v>>
  ELSE <<>>

\* "Parse inputs": a string is one input; of an array the string items, in
\* order; anything else gives no inputs
ParseInputs(input) ==
  IF input.t = "string" THEN <<input.v>>
  ELSE IF input.t = "array"
    THEN LET strs == SelectSeq(input.v, LAMBDA it : it.t = "string")
         IN [i \in 1..Len(strs) |-> strs[i].v]
  ELSE <<>>

\* the values rand.NormFloat64 may return are drawn from RawValues for the
\* first PatLen components and are 0 for the rest
RawValues == {-1, 0, 2}

Patterns == [1..PatLen -> RawValues]

RawVector(d, pat) == [j \in 1..d |-> IF j <= PatLen THEN pat[j] ELSE 0]

\* sumSq += embedding[j] * embedding[j], over all j
RECURSIVE SumSq(_, _, _)
SumSq(v, lo, hi) ==
  IF lo > hi THEN 0
  ELSE IF lo = hi THEN v[lo] * v[lo]
  ELSE LET mid == (lo + hi) \div 2
       IN SumSq(v, lo, mid) + SumSq(v, mid + 1, hi)

\* norm := 1.0 / (sumSq + 1e-10); embedding[j] *= norm.  The components are
\* kept as the fractions num[j] / den, with 1 / EpsInv standing for 1e-10:
\* raw[j] / (sumSq + 1/EpsInv) = raw[j] * EpsInv / (sumSq * EpsInv + 1)
Normalize(raw) ==
  [num |-> [j \in 1..Len(raw) |-> raw[j] * EpsInv],
   den |-> SumSq(raw, 1, Len(raw)) * EpsInv + 1]

RECURSIVE TotalTokens(_)
TotalTokens(inputs) ==
  IF inputs = <<>> THEN 0 ELSE estimateTokens(Head(inputs)) + TotalTokens(Tail(inputs))

\* make([]float64, dimensions) with a negative length panics; net/http
\* recovers and drops the connection without a response
Panicked == [status |-> 0, kind |-> "panic"]

\* embeddingsHandler; pats are the random draws, one pattern per input
embeddingsHandler(method, rq, pats) ==
  IF method # "POST" THEN sendError(405, "invalid_request_error", Nil, Nil)
  ELSE IF ~rq.decodable THEN sendError(400, "invalid_request_error", Some("body"), Nil)
  ELSE IF rq.model = <<>> THEN sendError(400, "invalid_request_error", Some("model"), Nil)
  ELSE IF rq.input.t = "nil"
    THEN sendError(400, "invalid_request_error", Some("input"), Nil)
  ELSE LET dimensions == Dimensions(rq)
           inputs == ParseInputs(rq.input)
           total == TotalTokens(inputs)
       IN IF inputs # <<>> /\ dimensions < 0 THEN Panicked
          ELSE [status |-> 200, kind |-> "embeddings", object |-> "list",
                data |-> [i \in 1..Len(inputs) |->
                            [object |-> "embedding",
                             embedding |-> Normalize(RawVector(dimensions, pats[i])),
                             index |-> i - 1]],
                model |-> rq.model,
                usage |-> [prompt_tokens |-> total, total_tokens |-> total]]

\* router
Route(path) ==
  IF path = ModelsPath THEN "models"
  ELSE IF HasPrefix(path, ModelsPrefix) THEN "modelByID"
  ELSE IF path = ChatPath THEN "chat"
  ELSE IF path = EmbeddingsPath THEN "embeddings"
  ELSE "unknown"

\* cleanPath of http.ServeMux for the paths that occur: runs of "/" become
\* one "/" (a closing "/" is kept)
CleanPath(path) ==
  LET keep == {i \in 1..Len(path) : ~(path[i] = "/" /\ i > 1 /\ path[i - 1] = "/")}
      Nth(k) == CHOOSE i \in keep : Cardinality({j \in keep : j <= i}) = k
  IN [k \in 1..Cardinality(keep) |-> path[Nth(k)]]

\* the names of the response headers that occur
CorsNames ==
  {"Access-Control-Allow-Origin", "Access-Control-Allow-Methods",
   "Access-Control-Allow-Headers", "Access-Control-Max-Age"}

RespHeaderNames == CorsNames \cup {"Content-Type", "Location"}

NoRespHeaders == [k \in RespHeaderNames |-> ""]

\* the four w.Header().Set calls of corsMiddleware
CorsValue(name) ==
  CASE name = "Access-Control-Allow-Origin" -> "*"
    [] name = "Access-Control-Allow-Methods" -> "GET, POST, OPTIONS, DELETE, PUT, PATCH"
    [] name = "Access-Control-Allow-Headers" -> "Content-Type, Authorization, X-Request-ID"
    [] name = "Access-Control-Max-Age" -> "86400"

SetCorsHeaders(h) == [k \in RespHeaderNames |-> IF k \in CorsNames THEN CorsValue(k) ELSE h[k]]

\* w.Header().Set("Content-Type", "application/json") of sendError and of
\* the success paths; a panic writes nothing
WithContentType(h, resp) ==
  IF resp.kind = "panic" THEN h ELSE [h EXCEPT !["Content-Type"] = "application/json"]

\*  pc      idle, mux (http.ServeMux), cors (corsMiddleware), routing, chat
\*          (handed to chatCompletionsHandler), done
\*  method, path, body   the request (body: the decoded embeddings request)
\*  resp    the response written
\*  whdr    the response headers
\*  reached the functions of the server the request has entered
ApiIdle ==
  [pc |-> "idle", method |-> "", path |-> <<>>, body |-> NoBody,
   resp |-> [status |-> 0, kind |-> "none"],
   whdr |-> NoRespHeaders, reached |-> {}]

\* a request arrives at the server
ApiRequest ==
  /\ api.pc = "idle"
  /\ \E m \in ApiMethods, p \in ApiPaths :
       \E b \in (IF p = EmbeddingsPath /\ m = "POST" THEN EmbedBodies ELSE {NoBody}) :
         api' = [api EXCEPT !.pc = "mux", !.method = m, !.path = p, !.body = b]
  /\ UNCHANGED notApi

\* http.HandleFunc("/", ...): the default ServeMux answers a path that is
\* not clean with a 301 to the clean path, and otherwise calls the handler
ApiMux ==
  /\ api.pc = "mux"
  /\ api' = IF CleanPath(api.path) # api.path
              THEN [api EXCEPT !.pc = "done",
                               !.resp = [status |-> 301, kind |-> "redirect"],
                               !.whdr = [@ EXCEPT !["Location"] = "clean path"]]
              ELSE [api EXCEPT !.pc = "cors"]
  /\ UNCHANGED notApi

\* corsMiddleware: the headers, then 200 for OPTIONS or next(w, r)
ApiCors ==
  /\ api.pc = "cors"
  /\ api' = IF api.method = "OPTIONS"
              THEN [api EXCEPT !.pc = "done", !.whdr = SetCorsHeaders(@),
                               !.reached = @ \cup {"corsMiddleware"},
                               !.resp = [status |-> 200, kind |-> "empty"]]
              ELSE [api EXCEPT !.pc = "routing", !.whdr = SetCorsHeaders(@),
                               !.reached = @ \cup {"corsMiddleware"}]
  /\ UNCHANGED notApi

\* the handler has written resp
Served(handler, resp) ==
  [api EXCEPT !.pc = "done", !.resp = resp, !.whdr = WithContentType(@, resp),
              !.reached = @ \cup {"router", handler}]

ApiModels ==
  /\ api.pc = "routing" /\ Route(api.path) = "models"
  /\ api' = Served("modelsHandler", modelsHandler(api.method))
  /\ UNCHANGED notApi

ApiModelByID ==
  /\ api.pc = "routing" /\ Route(api.path) = "modelByID"
  /\ api' = Served("modelByIDHandler", modelByIDHandler(api.method, api.path))
  /\ UNCHANGED notApi

ApiEmbeddings ==
  /\ api.pc = "routing" /\ Route(api.path) = "embeddings"
  /\ \E pats \in [1..Len(ParseInputs(api.body.input)) -> Patterns] :
       api' = Served("embeddingsHandler", embeddingsHandler(api.method, api.body, pats))
  /\ UNCHANGED notApi

ApiUnknown ==
  /\ api.pc = "routing" /\ Route(api.path) = "unknown"
  /\ api' = Served("router", sendError(404, "invalid_request_error", Nil,
                                        Some("unknown_url")))
  /\ UNCHANGED notApi

\* the router hands the request to chatCompletionsHandler
ApiChat ==
  /\ api.pc = "routing" /\ Route(api.path) = "chat"
  /\ chat[1].pc = "idle"
  /\ \E rq \in ChatRequests :
       /\ rq.method = api.method
       /\ chat' = [chat EXCEPT ![1] = [ChatIdle EXCEPT !.pc = "received", !.req = rq,
                                                   !.connected = TRUE]]
  /\ api' = [api EXCEPT !.pc = "chat",
                        !.reached = @ \cup {"router", "chatCompletionsHandler"}]
  /\ UNCHANGED <<tun, fwd, hdr, prov>>

NextApi ==
  \/ ApiRequest
  \/ ApiMux
  \/ ApiCors
  \/ ApiChat
  \/ ApiModels
  \/ ApiModelByID
  \/ ApiEmbeddings
  \/ ApiUnknown

\* =========================================================================
\*  Providers: createCustomFetch and removeKeysFromObject of both providers,
\*  NoStreamChatLanguageModel
\* =========================================================================
\* JSON values: null, scalars, arrays, and objects as their entries in order
JNull == [t |-> "null", v |-> <<>>]

JStr(text) == [t |-> "str", v |-> text]

JNum(n) == [t |-> "num", v |-> n]

JBool(b) == [t |-> "bool", v |-> b]

JArr(items) == [t |-> "arr", v |-> items]

JObj(entries) == [t |-> "obj", v |-> entries]

Entry(key, value) == [k |-> key, v |-> value]

\* result[key] = value on a fresh {}: an assignment to "__proto__" reaches
\* the setter of Object.prototype and creates no property
Assign(result, key, value) ==
  IF key = "__proto__" THEN result ELSE Append(result, Entry(key, value))

\* keysToRemove.includes(key)
Includes(keys, key) == \E i \in 1..Len(keys) : keys[i] = key

\* removeKeysFromObject of openai-mtls-provider
RECURSIVE removeKeysFromObject(_, _)
RECURSIVE CopyEntries(_, _, _)
CopyEntries(entries, keysToRemove, result) ==
  IF entries = <<>> THEN result
  ELSE LET e == Head(entries)
       IN CopyEntries(Tail(entries), keysToRemove,
                      IF Includes(keysToRemove, e.k) THEN result
                      ELSE Assign(result, e.k, removeKeysFromObject(e.v, keysToRemove)))

removeKeysFromObject(obj, keysToRemove) ==
  IF obj.t = "null" THEN obj
  ELSE IF obj.t = "arr"
    THEN JArr([i \in 1..Len(obj.v) |-> removeKeysFromObject(obj.v[i], keysToRemove)])
  ELSE IF obj.t = "obj" THEN JObj(CopyEntries(obj.v, keysToRemove, <<>>))
  ELSE obj

\* removeKeysFromObject of openai-mtls-no-stream-provider
RECURSIVE removeKeysFromObjectNoStream(_, _)
RECURSIVE CopyEntriesNoStream(_, _, _)
CopyEntriesNoStream(entries, keysToRemove, result) ==
  IF entries = <<>> THEN result
  ELSE LET e == Head(entries)
       IN CopyEntriesNoStream(Tail(entries), keysToRemove,
            IF Includes(keysToRemove, e.k) THEN result
            ELSE Assign(result, e.k, removeKeysFromObjectNoStream(e.v, keysToRemove)))

removeKeysFromObjectNoStream(obj, keysToRemove) ==
  IF obj.t = "null" THEN obj
  ELSE IF obj.t = "arr"
    THEN JArr([i \in 1..Len(obj.v) |->
                 removeKeysFromObjectNoStream(obj.v[i], keysToRemove)])
  ELSE IF obj.t = "obj" THEN JObj(CopyEntriesNoStream(obj.v, keysToRemove, <<>>))
  ELSE obj

\* a request body: none, text that is not JSON, or JSON text (its value)
NoBodyInit == [kind |-> "none", tree |-> JNull]

TextBody == [kind |-> "text", tree |-> JNull]

JsonBody(tree) == [kind |-> "json", tree |-> tree]

\* ---- settings ------------------------------------------------------------
\* a certificate path: "absent", or a file that is "ok" or "unreadable"
FileStates == {"absent", "ok", "unreadable"}

RemoveKeyLists ==
  { <<>>, <<"strict">>, <<"stream", "meta">>,
    <<"frequency_penalty", "presence_penalty">> }

ProviderSettings ==
  [clientCert : FileStates, clientKey : FileStates, caCert : FileStates,
   proxy : BOOLEAN, removeKeys : RemoveKeyLists]

NoSettings ==
  [clientCert |-> "absent", clientKey |-> "absent", caCert |-> "absent",
   proxy |-> FALSE, removeKeys |-> <<>>]

\* what the first part of createCustomFetch leaves: the error thrown ("": none)
\* and which of cert, key, ca are loaded
Loaded(thrown, cert, key, ca) ==
  [thrown |-> thrown, cert |-> cert, key |-> key, ca |-> ca]

\* createCustomFetch of openai-mtls-provider, certificate loading: all three
\* or none
LoadCerts(o) ==
  IF o.clientCert # "absent" /\ o.clientKey # "absent" /\ o.caCert # "absent"
    THEN IF o.clientCert = "unreadable" THEN Loaded("cert", FALSE, FALSE, FALSE)
         ELSE IF o.clientKey = "unreadable" THEN Loaded("key", FALSE, FALSE, FALSE)
         ELSE IF o.caCert = "unreadable" THEN Loaded("ca", FALSE, FALSE, FALSE)
         ELSE Loaded("", TRUE, TRUE, TRUE)
    ELSE Loaded("", FALSE, FALSE, FALSE)

\* createCustomFetch of openai-mtls-no-stream-provider, certificate loading:
\* cert and key, and the CA when given
LoadCertsNoStream(o) ==
  IF o.clientCert # "absent" /\ o.clientKey # "absent"
    THEN IF o.clientCert = "unreadable" THEN Loaded("cert", FALSE, FALSE, FALSE)
         ELSE IF o.clientKey = "unreadable" THEN Loaded("key", FALSE, FALSE, FALSE)
         ELSE IF o.caCert = "absent" THEN Loaded("", TRUE, TRUE, FALSE)
         ELSE IF o.caCert = "unreadable" THEN Loaded("ca", FALSE, FALSE, FALSE)
         ELSE Loaded("", TRUE, TRUE, TRUE)
    ELSE Loaded("", FALSE, FALSE, FALSE)

\* the body after the removeKeys step of customFetch (openai-mtls-provider)
StripBody(o, body) ==
  IF o.removeKeys # <<>> /\ body.kind # "none"
    THEN IF body.kind = "json"
           THEN JsonBody(removeKeysFromObject(body.tree, o.removeKeys))
           ELSE body
    ELSE body

\* the same step in openai-mtls-no-stream-provider
StripBodyNoStream(o, body) ==
  IF o.removeKeys # <<>> /\ body.kind # "none"
    THEN IF body.kind = "json"
           THEN JsonBody(removeKeysFromObjectNoStream(body.tree, o.removeKeys))
           ELSE body
    ELSE body

NoTls == [set |-> FALSE, cert |-> FALSE, key |-> FALSE, ca |-> FALSE,
          rejectUnauthorized |-> FALSE]

\* customFetch of openai-mtls-provider: the options handed to fetch
CustomFetch(o, l, body) ==
  [body |-> StripBody(o, body),
   tls |-> IF l.cert /\ l.key /\ l.ca
             THEN [set |-> TRUE, cert |-> TRUE, key |-> TRUE, ca |-> TRUE,
                   rejectUnauthorized |-> TRUE]
             ELSE NoTls,
   proxy |-> o.proxy]

\* customFetch of openai-mtls-no-stream-provider
CustomFetchNoStream(o, l, body) ==
  [body |-> StripBodyNoStream(o, body),
   tls |-> IF l.cert /\ l.key
             THEN [set |-> TRUE, cert |-> TRUE, key |-> TRUE, ca |-> l.ca,
                   rejectUnauthorized |-> l.ca]
             ELSE NoTls,
   proxy |-> o.proxy]

NoFetch == [body |-> NoBodyInit, tls |-> NoTls, proxy |-> FALSE]

\* ---- NoStreamChatLanguageModel -------------------------------------------
\* the prompts of the calls: system, user, assistant and tool messages
TextPart(text) == [type |-> "text", text |-> text]

ToolCallPart(id, name, input) ==
  [type |-> "tool-call", toolCallId |-> id, toolName |-> name, input |-> input]

ToolResultPart(id, value) ==
  [type |-> "tool-result", toolCallId |-> id,
   output |-> [type |-> "text", value |-> value]]

SystemMessage(content) == [role |-> "system", content |-> content]

Message(role, content) == [role |-> role, content |-> content]

PartsOfType(content, type) ==
  SelectSeq(content, LAMBDA part : part.type = type)

\* textContent += part.text over the text parts
RECURSIVE TextContent(_)
TextContent(parts) ==
  IF parts = <<>> THEN <<>> ELSE Head(parts).text \o TextContent(Tail(parts))

\* convertMessages, one message: the messages it pushes
ConvertMessage(msg) ==
  IF msg.role = "system"
    THEN << JObj(<<Entry("role", JStr(<<"system">>)),
                   Entry("content", JStr(msg.content))>>) >>
  ELSE IF msg.role = "user"
    THEN LET texts == PartsOfType(msg.content, "text")
             parts == [i \in 1..Len(texts) |->
                         JObj(<<Entry("type", JStr(<<"text">>)),
                                Entry("text", JStr(texts[i].text))>>)]
         IN << JObj(<<Entry("role", JStr(<<"user">>)),
                      Entry("content", IF Len(parts) = 1 THEN JStr(texts[1].text)
                                       ELSE JArr(parts))>>) >>
  ELSE IF msg.role = "assistant"
    THEN LET textContent == TextContent(PartsOfType(msg.content, "text"))
             calls == PartsOfType(msg.content, "tool-call")
             toolCalls == [i \in 1..Len(calls) |->
               JObj(<<Entry("id", JStr(calls[i].toolCallId)),
                      Entry("type", JStr(<<"function">>)),
                      Entry("function",
                            JObj(<<Entry("name", JStr(calls[i].toolName)),
                                   Entry("arguments", JStr(calls[i].input))>>))>>)]
         IN << JObj(<<Entry("role", JStr(<<"assistant">>))>>
                    \o (IF textContent # <<>>
                          THEN <<Entry("content", JStr(textContent))>> ELSE <<>>)
                    \o (IF Len(toolCalls) > 0
                          THEN <<Entry("tool_calls", JArr(toolCalls))>> ELSE <<>>)) >>
  ELSE IF msg.role = "tool"
    THEN LET results == PartsOfType(msg.content, "tool-result")
         IN [i \in 1..Len(results) |->
               JObj(<<Entry("role", JStr(<<"tool">>)),
                      Entry("tool_call_id", JStr(results[i].toolCallId)),
                      Entry("content", JStr(results[i].output.value))>>)]
  ELSE <<>>

RECURSIVE convertMessages(_)
convertMessages(messages) ==
  IF messages = <<>> THEN <<>>
  ELSE ConvertMessage(Head(messages)) \o convertMessages(Tail(messages))

\* convertTools: Nil for undefined
convertTools(tools) ==
  IF tools = <<>> THEN Nil
  ELSE LET fs == SelectSeq(tools, LAMBDA t : t.type = "function")
       IN Some(JArr([i \in 1..Len(fs) |->
            JObj(<<Entry("type", JStr(<<"function">>)),
                   Entry("function",
                         JObj(<<Entry("name", JStr(fs[i].name)),
                                Entry("description", JStr(fs[i].description)),
                                Entry("parameters", fs[i].inputSchema)>>))>>)]))

\* convertToolChoice: Nil for undefined
convertToolChoice(tc) ==
  IF tc = Nil THEN Nil
  ELSE LET c == tc[1]
       IN IF c.type \in {"auto", "none", "required"} THEN Some(JStr(<<c.type>>))
          ELSE IF c.type = "tool"
            THEN Some(JObj(<<Entry("type", JStr(<<"function">>)),
                             Entry("function",
                                   JObj(<<Entry("name", JStr(c.toolName))>>))>>))
          ELSE Nil

\* body.<key> = <value> when the option is defined
Optional(key, option) ==
  IF option = Nil THEN <<>> ELSE <<Entry(key, option[1])>>

StreamFieldFromProviderOptions(options) == JBool(options.providerOptions.stream)

\* stream: false
StreamField(options) == JBool(FALSE)

\* buildRequestBody
buildRequestBody(modelId, options) ==
  JObj(<<Entry("model", JStr(modelId)),
         Entry("messages", JArr(convertMessages(options.prompt))),
         Entry("stream", StreamField(options))>>
       \o Optional("max_tokens", options.maxOutputTokens)
       \o Optional("temperature", options.temperature)
       \o Optional("top_p", options.topP)
       \o Optional("frequency_penalty", options.frequencyPenalty)
       \o Optional("presence_penalty", options.presencePenalty)
       \o (IF options.stopSequences # Nil /\ Len(options.stopSequences[1].v) > 0
             THEN <<Entry("stop", options.stopSequences[1])>> ELSE <<>>)
       \o Optional("seed", options.seed)
       \o Optional("tools", convertTools(options.tools))
       \o Optional("tool_choice", convertToolChoice(options.toolChoice))
       \o (IF options.responseFormat = "json"
             THEN <<Entry("response_format",
                          JObj(<<Entry("type", JStr(<<"json_object">>))>>))>>
             ELSE <<>>))

\* the call options of the calls
NoOptions ==
  [prompt |-> <<>>, maxOutputTokens |-> Nil, temperature |-> Nil, topP |-> Nil,
   frequencyPenalty |-> Nil, presencePenalty |-> Nil, stopSequences |-> Nil,
   seed |-> Nil, tools |-> <<>>, toolChoice |-> Nil, responseFormat |-> "",
   providerOptions |-> [stream |-> FALSE]]

UserHi == Message("user", <<TextPart(<<"h", "i">>)>>)

WeatherTool ==
  [type |-> "function", name |-> <<"get_weather">>, description |-> <<"w">>,
   inputSchema |-> JObj(<<Entry("type", JStr(<<"object">>)),
                          Entry("strict", JBool(TRUE)),
                          Entry("properties",
                                JObj(<<Entry("stream", JObj(<<Entry("type",
                                                   JStr(<<"boolean">>))>>))>>))>>)]

CallOptions ==
  { [NoOptions EXCEPT !.prompt = <<UserHi>>],
    [NoOptions EXCEPT !.prompt = <<SystemMessage(<<"s">>),
                                   Message("user", <<TextPart(<<"a">>),
                                                     TextPart(<<"b">>)>>)>>,
                      !.maxOutputTokens = Some(JNum(16)),
                      !.temperature = Some(JNum(0)),
                      !.stopSequences = Some(JArr(<<>>)),
                      !.providerOptions = [stream |-> TRUE]],
    [NoOptions EXCEPT !.prompt = <<UserHi>>,
                      !.topP = Some(JNum(1)),
                      !.frequencyPenalty = Some(JNum(0)),
                      !.presencePenalty = Some(JNum(0)),
                      !.stopSequences = Some(JArr(<<JStr(<<"e", "n", "d">>)>>)),
                      !.seed = Some(JNum(7)),
                      !.tools = <<WeatherTool>>,
                      !.toolChoice = Some([type |-> "tool",
                                           toolName |-> <<"get_weather">>]),
                      !.responseFormat = "json",
                      !.providerOptions = [stream |-> TRUE]],
    [NoOptions EXCEPT !.prompt = <<UserHi,
                                   Message("assistant",
                                           <<TextPart(<<"o">>), TextPart(<<"k">>),
                                             ToolCallPart(<<"c1">>, <<"get_weather">>,
                                                          <<"{}">>)>>),
                                   Message("tool",
                                           <<ToolResultPart(<<"c1">>, <<"sun">>)>>)>>,
                      !.tools = <<[type |-> "provider-defined"]>>,
                      !.toolChoice = Some([type |-> "auto"]),
                      !.responseFormat = "text"] }

ModelId == <<"gpt-4o">>

\* the bodies the base provider hands to customFetch
InitBodies ==
  { NoBodyInit, TextBody, JsonBody(JNull),
    JsonBody(JObj(<<Entry("model", JStr(ModelId)),
                    Entry("strict", JBool(TRUE)),
                    Entry("tools",
                          JArr(<<JObj(<<Entry("strict", JBool(TRUE)),
                                        Entry("function",
                                              JObj(<<Entry("name", JStr(<<"f">>)),
                                                     Entry("meta", JNull)>>))>>),
                                 JStr(<<"s">>),
                                 JArr(<<JObj(<<Entry("stream", JBool(TRUE))>>),
                                        JNum(1)>>)>>)),
                    Entry("stream", JBool(TRUE))>>)),
    JsonBody(JArr(<<JObj(<<Entry("meta", JNum(1)), Entry("x", JNum(2))>>),
                    JNum(3),
                    JObj(<<Entry("strict", JStr(<<"y">>))>>)>>)),
    JsonBody(JObj(<<Entry("__proto__", JObj(<<Entry("a", JNum(1))>>)),
                    Entry("keep", JStr(<<"x">>)),
                    Entry("strict", JBool(TRUE))>>)) }

\* createOpenAICompatible of openai-mtls-no-stream-provider: whether a custom
\* fetch is created
UsesCustomFetch(o) ==
  \/ o.clientCert # "absent" /\ o.clientKey # "absent"
  \/ o.proxy
  \/ o.removeKeys # <<>>

\* this.customFetch = options.customFetch ?? fetch
ModelFetch(o, l, body) ==
  IF UsesCustomFetch(o) THEN CustomFetchNoStream(o, l, body)
  ELSE [body |-> body, tls |-> NoTls, proxy |-> FALSE]

\* ---- responses of the server and their parsing --------------------------
\* undefined: a missing property
Undefined == [t |-> "undef", v |-> <<>>]

\* obj.key, undefined when obj has no such property
GetField(obj, key) ==
  IF obj.t = "obj" /\ \E i \in 1..Len(obj.v) : obj.v[i].k = key
    THEN obj.v[CHOOSE i \in 1..Len(obj.v) :
                 obj.v[i].k = key /\ \A j \in (i + 1)..Len(obj.v) : obj.v[j].k # key].v
    ELSE Undefined

\* truthiness of a value
Truthy(x) ==
  IF x.t \in {"undef", "null"} THEN FALSE
  ELSE IF x.t = "str" THEN x.v # <<>>
  ELSE IF x.t = "bool" THEN x.v
  ELSE IF x.t = "num" THEN x.v # 0
  ELSE TRUE

\* x ?? undefined
OrUndefined(x) == IF x.t \in {"undef", "null"} THEN Undefined ELSE x

\* a finish reason passed on as the server gave it
mapFinishReasonRaw(raw) == IF raw.t = "str" THEN raw.v ELSE <<"unknown">>

\* mapFinishReason
mapFinishReason(raw) ==
  IF raw.t # "str" THEN <<"unknown">>
  ELSE IF raw.v = <<"stop">> THEN <<"stop">>
  ELSE IF raw.v = <<"length">> THEN <<"length">>
  ELSE IF raw.v = <<"content_filter">> THEN <<"content-filter">>
  ELSE IF raw.v \in {<<"tool_calls">>, <<"function_call">>} THEN <<"tool-calls">>
  ELSE <<"unknown">>

\* parseUsage
parseUsage(usage) ==
  [inputTokens |-> OrUndefined(GetField(usage, "prompt_tokens")),
   outputTokens |-> OrUndefined(GetField(usage, "completion_tokens")),
   totalTokens |-> OrUndefined(GetField(usage, "total_tokens"))]

TextBlock(text) == [type |-> "text", text |-> text]

ToolCallBlock(tc) ==
  [type |-> "tool-call", toolCallId |-> GetField(tc, "id"),
   toolName |-> GetField(GetField(tc, "function"), "name"),
   input |-> GetField(GetField(tc, "function"), "arguments")]

\* parseResponseContent
parseResponseContent(choice) ==
  LET msg == GetField(choice, "message")
      calls == GetField(msg, "tool_calls")
  IN IF ~Truthy(msg) THEN <<>>
     ELSE (IF Truthy(GetField(msg, "content"))
             THEN <<TextBlock(GetField(msg, "content"))>> ELSE <<>>)
          \o (IF Truthy(calls)
                THEN [i \in 1..Len(calls.v) |-> ToolCallBlock(calls.v[i])]
                ELSE <<>>)

\* json.choices?.[0], and choice ?? {}
FirstChoice(json) ==
  LET choices == GetField(json, "choices")
  IN IF choices.t = "arr" /\ Len(choices.v) > 0 THEN choices.v[1] ELSE Undefined

\* json.created ? new Date(json.created * 1000) : undefined
Timestamp(json) ==
  IF Truthy(GetField(json, "created"))
    THEN [t |-> "date", v |-> GetField(json, "created").v * 1000]
    ELSE Undefined

\* the responses of the server
Response(status, body) == [status |-> status, body |-> body]

ToolCallJson(id, name, arguments) ==
  JObj(<<Entry("id", JStr(id)), Entry("type", JStr(<<"function">>)),
         Entry("function", JObj(<<Entry("name", JStr(name)),
                                  Entry("arguments", JStr(arguments))>>))>>)

Completion(message, finish, more) ==
  JObj(<<Entry("id", JStr(<<"chatcmpl-1">>)), Entry("model", JStr(ModelId)),
         Entry("choices", JArr(<<JObj(message \o <<Entry("finish_reason", finish)>>)>>))>>
       \o more)

FullUsage ==
  Entry("usage", JObj(<<Entry("prompt_tokens", JNum(3)),
                        Entry("completion_tokens", JNum(4)),
                        Entry("total_tokens", JNum(7))>>))

ServerResponses ==
  { Response(200, JsonBody(Completion(
      <<Entry("message", JObj(<<Entry("role", JStr(<<"assistant">>)),
                                Entry("content", JStr(<<"H", "i">>))>>))>>,
      JStr(<<"stop">>), <<Entry("created", JNum(5)), FullUsage>>))),
    Response(200, JsonBody(Completion(
      <<Entry("message", JObj(<<Entry("role", JStr(<<"assistant">>)),
                                Entry("content", JNull),
                                Entry("tool_calls",
                                      JArr(<<ToolCallJson(<<"call_1">>, <<"f">>, <<"{}">>),
                                             ToolCallJson(<<"call_2">>, <<"g">>,
                                                          <<"{", "}">>)>>))>>))>>,
      JStr(<<"tool_calls">>), <<FullUsage>>))),
    Response(201, JsonBody(Completion(
      <<Entry("message", JObj(<<Entry("content", JStr(<<"o", "k">>)),
                                Entry("tool_calls",
                                      JArr(<<ToolCallJson(<<"call_3">>, <<"f">>,
                                                          <<"{}">>)>>))>>))>>,
      JStr(<<"function_call">>),
      <<Entry("usage", JObj(<<Entry("prompt_tokens", JNum(3)),
                              Entry("completion_tokens", JNull)>>))>>))),
    Response(200, JsonBody(Completion(
      <<Entry("message", JObj(<<Entry("content", JStr(<<>>))>>))>>,
      JStr(<<"length">>), <<>>))),
    Response(200, JsonBody(Completion(<<>>, JStr(<<"content_filter">>), <<>>))),
    Response(200, JsonBody(JObj(<<Entry("choices", JArr(<<>>))>>))),
    Response(200, TextBody),
    Response(200, JsonBody(JNull)),
    Response(404, JsonBody(JObj(<<Entry("error", JObj(<<Entry("code",
                                     JStr(<<"model_not_found">>))>>))>>))),
    Response(500, TextBody) }

\* a status the caller takes for a success whatever it is
OkAlways(status) == TRUE

\* response.ok
Ok(status) == status >= 200 /\ status <= 299

NoError == [name |-> "", status |-> 0, text |-> NoBodyInit]

\* new Error(`API request failed with status ${response.status}: ${text}`)
ApiError(status, text) == [name |-> "Error", status |-> status, text |-> text]

\* the error of response.json() on a body that is not JSON
SyntaxError == [name |-> "SyntaxError", status |-> 0, text |-> NoBodyInit]

\* the error of reading a property of null
TypeError == [name |-> "TypeError", status |-> 0, text |-> NoBodyInit]

\* doPost after the fetch, and json.choices of the caller: the error thrown
PostError(resp) ==
  IF ~Ok(resp.status) THEN ApiError(resp.status, resp.body)
  ELSE IF resp.body.kind # "json" THEN SyntaxError
  ELSE IF resp.body.tree.t = "null" THEN TypeError
  ELSE NoError

NoResult ==
  [kind |-> "none", error |-> NoError, content |-> <<>>, finishReason |-> <<>>,
   usage |-> parseUsage(Undefined), parts |-> <<>>, closed |-> FALSE]

Thrown(error) == [NoResult EXCEPT !.kind = "thrown", !.error = error]

\* the result object of doGenerate
GenerateResult(json) ==
  [NoResult EXCEPT !.kind = "generate",
                   !.content = parseResponseContent(FirstChoice(json)),
                   !.finishReason =
                      mapFinishReason(GetField(FirstChoice(json), "finish_reason")),
                   !.usage = parseUsage(GetField(json, "usage"))]

TextId == JStr(<<"txt-0">>)

\* the parts of a tool call without the tool-call part itself
BlockPartsInputOnly(block) ==
  IF block.type = "text"
    THEN << [type |-> "text-start", id |-> TextId],
            [type |-> "text-delta", id |-> TextId, delta |-> block.text],
            [type |-> "text-end", id |-> TextId] >>
    ELSE << [type |-> "tool-input-start", id |-> block.toolCallId,
             toolName |-> block.toolName],
            [type |-> "tool-input-delta", id |-> block.toolCallId,
             delta |-> block.input],
            [type |-> "tool-input-end", id |-> block.toolCallId] >>

\* the parts enqueued for one content block
BlockParts(block) ==
  IF block.type = "text"
    THEN << [type |-> "text-start", id |-> TextId],
            [type |-> "text-delta", id |-> TextId, delta |-> block.text],
            [type |-> "text-end", id |-> TextId] >>
  ELSE IF block.type = "tool-call"
    THEN << [type |-> "tool-input-start", id |-> block.toolCallId,
             toolName |-> block.toolName],
            [type |-> "tool-input-delta", id |-> block.toolCallId,
             delta |-> block.input],
            [type |-> "tool-input-end", id |-> block.toolCallId],
            [type |-> "tool-call", toolCallId |-> block.toolCallId,
             toolName |-> block.toolName, input |-> block.input] >>
  ELSE <<>>

\* the parts enqueued by start(controller), in order
StreamParts(json) ==
  LET content == parseResponseContent(FirstChoice(json))
  IN << [type |-> "stream-start"],
        [type |-> "response-metadata", id |-> GetField(json, "id"),
         modelId |-> GetField(json, "model"), timestamp |-> Timestamp(json)] >>
     \o Concat([i \in 1..Len(content) |-> BlockParts(content[i])])
     \o << [type |-> "finish", usage |-> parseUsage(GetField(json, "usage")),
            finishReason |->
              mapFinishReason(GetField(FirstChoice(json), "finish_reason"))] >>

\* the result of doStream: the stream's parts, and controller.close()
StreamResult(json) ==
  [NoResult EXCEPT !.kind = "stream", !.parts = StreamParts(json), !.closed = TRUE]

NotCalled == [called |-> FALSE, opts |-> NoFetch]

Called(opts) == [called |-> TRUE, opts |-> opts]

ProvIdle ==
  [pc |-> "idle", settings |-> NoSettings,
   loaded |-> Loaded("", FALSE, FALSE, FALSE),
   loadedMtls |-> Loaded("", FALSE, FALSE, FALSE),
   calls |-> 0, op |-> "", init |-> NoBodyInit,
   sent |-> NotCalled, sentMtls |-> NotCalled,
   genResp |-> Response(0, NoBodyInit), gen |-> NoResult,
   streamResp |-> Response(0, NoBodyInit), stream |-> NoResult]

\* createCustomFetch of both providers on the same settings
ProvCreate ==
  /\ prov.pc = "idle"
  /\ \E o \in ProviderSettings :
       prov' = [prov EXCEPT !.pc = "ready", !.settings = o,
                            !.loaded = LoadCertsNoStream(o),
                            !.loadedMtls = LoadCerts(o)]
  /\ UNCHANGED notProv

\* doPost up to await this.customFetch(...): the request of one call
DoPost(op) ==
  /\ prov.pc = "ready"
  /\ prov.loaded.thrown = ""
  /\ prov.calls < MaxCalls
  /\ \E options \in CallOptions :
       LET body == JsonBody(buildRequestBody(ModelId, options))
       IN prov' = [prov EXCEPT !.pc = "await", !.calls = @ + 1, !.op = op,
                     !.init = body,
                     !.sent = Called(ModelFetch(prov.settings, prov.loaded, body)),
                     !.sentMtls = NotCalled]
  /\ UNCHANGED notProv

\* doGenerate is called
ProvDoGenerate == DoPost("doGenerate")

\* doStream is called
ProvDoStream == DoPost("doStream")

\* the server's answer arrives: the rest of doPost and of doGenerate
ProvGenerateDone ==
  /\ prov.pc = "await" /\ prov.op = "doGenerate"
  /\ \E resp \in ServerResponses :
       prov' = [prov EXCEPT !.pc = "ready", !.genResp = resp,
                  !.gen = IF PostError(resp) # NoError THEN Thrown(PostError(resp))
                          ELSE GenerateResult(resp.body.tree)]
  /\ UNCHANGED notProv

\* the server's answer arrives: the rest of doPost and of doStream
ProvStreamDone ==
  /\ prov.pc = "await" /\ prov.op = "doStream"
  /\ \E resp \in ServerResponses :
       prov' = [prov EXCEPT !.pc = "ready", !.streamResp = resp,
                  !.stream = IF PostError(resp) # NoError THEN Thrown(PostError(resp))
                             ELSE StreamResult(resp.body.tree)]
  /\ UNCHANGED notProv

\* customFetch(input, init) of both providers on the same init
ProvBaseFetch ==
  /\ prov.pc = "ready"
  /\ prov.loadedMtls.thrown = ""
  /\ prov.calls < MaxCalls
  /\ \E body \in InitBodies :
       prov' = [prov EXCEPT !.calls = @ + 1, !.op = "fetch", !.init = body,
                  !.sentMtls = Called(CustomFetch(prov.settings, prov.loadedMtls, body)),
                  !.sent = IF prov.loaded.thrown = ""
                             THEN Called(CustomFetchNoStream(prov.settings,
                                                             prov.loaded, body))
                             ELSE NotCalled]
  /\ UNCHANGED notProv

NextProv ==
  \/ ProvCreate
  \/ ProvDoGenerate
  \/ ProvDoStream
  \/ ProvGenerateDone
  \/ ProvStreamDone
  \/ ProvBaseFetch

\* =========================================================================
\*  Initial state and specifications
\* =========================================================================
Init ==
  /\ chat = [r \in Reqs |-> ChatIdle]
  /\ tun = TunIdle
  /\ fwd = FwdIdle
  /\ hdr = HdrIdle
  /\ api = ApiIdle
  /\ prov = ProvIdle

\* one chat request served at a time
NextChat == ChatStep(1)

SpecChat == Init /\ [][NextChat]_vars

SpecTunnel == Init /\ [][NextTunnel]_vars

\* a started goroutine that can take a step is scheduled
SpecTunnelFair ==
  /\ Init /\ [][NextTunnel]_vars
  /\ WF_vars(G1Read \/ G1Write \/ G1Signal)
  /\ WF_vars(G2Read \/ G2Write \/ G2Signal)

SpecForward == Init /\ [][NextForward]_vars

\* one request through ProxyServer.ServeHTTP: CONNECT goes to the tunnel,
\* anything else is forwarded
NextRelay ==
  \/ fwd = FwdIdle /\ NextTunnel
  \/ tun = TunIdle /\ NextForward

SpecRelay == Init /\ [][NextRelay]_vars

SpecHeaders == Init /\ [][NextHeaders]_vars

SpecApi == Init /\ [][NextApi]_vars

\* the whole inference server: one request through the ServeMux,
\* corsMiddleware and the router to its handler
NextServer ==
  \/ NextApi
  \/ api.pc = "chat" /\ ChatHandlerStep(1)

SpecServer == Init /\ [][NextServer]_vars

SpecProv == Init /\ [][NextProv]_vars

NextStreams == \E r \in Reqs : ChatReceiveStream(r) \/ StreamStep(r)

SpecStreams == Init /\ [][NextStreams]_vars

\* =========================================================================
\*  Properties of the inference endpoint (checked under SpecChat)
\* =========================================================================

\* the request passed every check of chatCompletionsHandler
ValidReq(rq) == rq.method = "POST" /\ rq.decodable /\ rq.model # "" /\ rq.messages # <<>>

\* the request was served by the SSE path
Streamed(c) == ValidReq(c.req) /\ c.req.stream /\ c.req.flusher

FrameKind(f) ==
  IF f.kind = "done" THEN "done"
  ELSE IF f.role = Some("assistant") /\ f.content = Nil /\ f.finish_reason = Nil
    THEN "role"
  ELSE IF f.role = Nil /\ f.content # Nil /\ f.finish_reason = Nil
    THEN "content"
  ELSE IF f.role = Nil /\ f.content = Nil /\ f.finish_reason = Some("stop")
    THEN "finish"
  ELSE "other"

IsContentFrame(f) == FrameKind(f) = "content"

\* the text fragments of the content deltas delivered, in emission order
Deltas(c) ==
  LET fs == SelectSeq(c.wire, IsContentFrame)
  IN [k \in 1..Len(fs) |-> fs[k].content[1]]

\* C1: in a streamed response without write failure the events are one
\* role-open chunk, then only content deltas, then one finish chunk with
\* reason stop, then one [DONE], and nothing follows [DONE]; tools,
\* tool_choice and N make no difference.
C1_StreamFrameOrder ==
  \A r \in Reqs :
    LET c == chat[r]
        w == c.wire
    IN (c.pc # "idle" /\ ~c.failed) =>
         /\ ~Streamed(c) => w = <<>>
         /\ \A i \in 1..Len(w) :
              IF i = 1 THEN FrameKind(w[i]) = "role"
              ELSE \/ FrameKind(w[i]) \in {"content", "finish"}
                      /\ FrameKind(w[i - 1]) \in {"role", "content"}
                   \/ FrameKind(w[i]) = "done" /\ FrameKind(w[i - 1]) = "finish"
         /\ (Streamed(c) /\ c.pc = "completed") =>
              /\ Len(w) >= 3
              /\ FrameKind(w[Len(w)]) = "done"

C1_Witness ==
  \E r \in Reqs :
    /\ chat[r].pc = "completed" /\ Streamed(chat[r]) /\ ~chat[r].failed
    /\ Len(chat[r].req.tools) > 0
    /\ chat[r].req.tool_choice.v = "required"
    /\ chat[r].req.n = Some(2)
    /\ Len(chat[r].wire) > 3

\* C2: the content deltas of a streamed response, concatenated in emission
\* order, spell the chosen canned reply; there is one delta per word, each
\* but the last is the word plus exactly one space, the last has no
\* separator.
C2_DeltasSpellReply ==
  \A r \in Reqs :
    LET c == chat[r]
        ds == Deltas(c)
        reply == mockResponses[c.idx]
        words == Fields(reply)
    IN (Streamed(c) /\ c.pc \notin {"idle", "received"} /\ ~c.failed) =>
         /\ IsPrefix(Concat(ds), reply)
         /\ Len(ds) <= Len(words)
         /\ \A k \in 1..Len(ds) :
              /\ ds[k] = IF k < Len(words) THEN words[k] \o <<" ">> ELSE words[k]
              /\ \A j \in 1..Len(ds[k]) :
                   IsSpace(ds[k][j]) <=> (k < Len(words) /\ j = Len(ds[k]))
         /\ c.pc \in {"finish", "done", "completed"} =>
              /\ Concat(ds) = reply
              /\ Len(ds) = Len(words)

C2_Witness ==
  \E r \in Reqs :
    /\ chat[r].pc = "completed" /\ Streamed(chat[r]) /\ ~chat[r].failed
    /\ Len(Deltas(chat[r])) >= 9
    /\ Concat(Deltas(chat[r])) = mockResponses[5]

\* C6: after a failed write of a frame the encoder attempts no further
\* frame write and takes no further pacing delay.
C6_StopsAfterFailedWrite ==
  \A r \in Reqs : chat[r].failed => chat[r].afterFail = {}

\* C8: a decodable POST with an empty model is answered 400 with param
\* "model", one with a model and no messages 400 with param "messages";
\* neither draws a reply, decides on a tool or emits a frame, streaming or
\* not.
C8_ValidationBeforeSynthesis ==
  \A r \in Reqs :
    LET c == chat[r]
        rq == c.req
        want == IF rq.model = "" THEN "model" ELSE "messages"
    IN (c.pc # "idle" /\ rq.method = "POST" /\ rq.decodable
          /\ (rq.model = "" \/ rq.messages = <<>>)) =>
         /\ c.synth = {} /\ c.wire = <<>> /\ c.idx = 0
         /\ c.pc \in {"received", "completed"}
         /\ c.pc = "completed" =>
              /\ c.resp.kind = "error" /\ c.resp.status = 400
              /\ c.resp.param = Some(want)

C8_Witness ==
  \E r \in Reqs :
    /\ chat[r].pc = "completed" /\ chat[r].req.method = "POST" /\ chat[r].req.decodable
    /\ chat[r].req.model # "" /\ chat[r].req.messages = <<>> /\ chat[r].req.stream
    /\ chat[r].resp.param = Some("messages")

\* C9: a valid non-streaming request with N = k >= 1 gets exactly k
\* choices indexed 0..k-1, and completion_tokens = k * floor(len(reply)/4).
C9_ChoicesAndCompletionTokens ==
  \A r \in Reqs :
    LET c == chat[r]
        rq == c.req
        k == rq.n[1]
        ch == c.resp.choices
        replyLen == IF c.idx = 0 THEN 0 ELSE Len(mockResponses[c.idx])
    IN (c.pc = "completed" /\ ValidReq(rq) /\ ~rq.stream /\ rq.n # Nil /\ k >= 1) =>
         /\ c.resp.kind = "completion"
         /\ Len(ch) = k
         /\ \A j \in 1..k : ch[j].index = j - 1
         /\ \A j \in 1..k : c.idx # 0 => ch[j].message.content.Text = mockResponses[c.idx]
         /\ c.resp.usage.completion_tokens = k * (replyLen \div 4)

C9_Witness ==
  \E r \in Reqs :
    /\ chat[r].pc = "completed" /\ ValidReq(chat[r].req) /\ ~chat[r].req.stream
    /\ chat[r].req.n = Some(2)
    /\ Len(chat[r].resp.choices) = 2
    /\ chat[r].resp.usage.completion_tokens = 44

C11_ForcedFunctionIsCalled ==
  \A r \in Reqs :
    LET c == chat[r]
        rq == c.req
    IN (c.pc = "completed" /\ ValidReq(rq) /\ ~rq.stream /\ rq.tool_choice.t = "map"
          /\ \E t \in 1..Len(rq.tools) : rq.tools[t] = rq.tool_choice.v) =>
         /\ c.resp.kind = "completion"
         /\ \A j \in 1..Len(c.resp.choices) :
              /\ Len(c.resp.choices[j].message.tool_calls) = 1
              /\ c.resp.choices[j].message.tool_calls[1].name = rq.tool_choice.v

\* C12: a valid request with stream = true on a writer that cannot flush is
\* answered 500 with type server_error and not one SSE event is emitted.
C12_NoFlusherIsServerError ==
  \A r \in Reqs :
    LET c == chat[r]
        rq == c.req
    IN (c.pc # "idle" /\ rq.stream /\ ~rq.flusher) =>
         /\ c.wire = <<>> /\ "stream" \notin c.synth
         /\ c.pc \in {"received", "completed"}
         /\ (c.pc = "completed" /\ ValidReq(rq)) =>
              /\ c.resp.kind = "error" /\ c.resp.status = 500
              /\ c.resp.type = "server_error"

C12_Witness ==
  \E r \in Reqs :
    /\ chat[r].pc = "completed" /\ ValidReq(chat[r].req)
    /\ chat[r].req.stream /\ ~chat[r].req.flusher
    /\ chat[r].resp.status = 500 /\ chat[r].wire = <<>>

\* =========================================================================
\*  Properties of the tunnel (checked under SpecTunnel)
\* =========================================================================

\* C3: in a tunnel, what the target has received is at every moment a
\* prefix of what the client wrote after the 200 line, and what the client
\* has received is a prefix of what the target wrote: same bytes, same order.
C3_TunnelPreservesBytes ==
  /\ IsPrefix(tun.tRecv, tun.cSent)
  /\ IsPrefix(tun.cRecv, tun.tSent)
  /\ ~tun.c200 => (tun.tRecv = <<>> /\ tun.cRecv = <<>>)

C3_Witness ==
  /\ tun.c200
  /\ tun.cSent = <<0, 1>> /\ tun.tRecv = <<0, 1>>
  /\ tun.tSent = <<1, 0>> /\ tun.cRecv = <<1, 0>>

\* the handler has returned from a tunnel it had established
TunnelOver == tun.pc = "returned" /\ tun.c200

\* C4: both copy tasks are started together; the handler returns exactly
\* when one of them has finished, closing the client and the target
\* connection; from then on the other direction delivers nothing more, even
\* if it still holds data.
C4_FirstFinishTearsDown ==
  /\ [](tun.pc = "wait" => (tun.g1.pc # "none" /\ tun.g2.pc # "none"))
  /\ []((tun.pc = "wait" /\ (tun.g1.pc = "exit" \/ tun.g2.pc = "exit")) => tun.done > 0)
  /\ [](TunnelOver => (tun.cconn = "closed" /\ tun.tconn = "closed"))
  /\ [][(tun.pc = "wait" /\ tun'.pc = "returned")
          => (tun.g1.pc = "exit" \/ tun.g2.pc = "exit")]_vars
  /\ [][TunnelOver => (/\ tun'.tRecv = tun.tRecv
                       /\ tun'.cRecv = tun.cRecv
                       /\ tun'.g1.pc \in {tun.g1.pc, "signal", "exit"}
                       /\ tun'.g2.pc \in {tun.g2.pc, "signal", "exit"})]_vars

C4_Witness ==
  /\ TunnelOver
  /\ tun.g1.pc = "exit" /\ tun.g2.pc = "exit"
  /\ tun.cSent = tun.tRecv /\ tun.cEOF
  /\ tun.tSent = <<1, 0>> /\ tun.cRecv = <<1>>
  /\ ~tun.cGone /\ ~tun.tGone

\* =========================================================================
\*  Properties of the forward relay (checked under SpecForward)
\* =========================================================================

\* the response is an event stream relayed to a writer that can flush
\* the media type of the header value is text/event-stream
DenotesEventStream(ctype) == ctype \in {EventStreamType, EventStreamCharset}

SSERelay ==
  /\ fwd.upOK /\ fwd.flusher /\ fwd.pc \notin {"idle", "do"}
  /\ DenotesEventStream(fwd.ctype)

\* C5: in the relay of an event stream each Read that returned bytes is
\* followed by one Write of exactly those bytes and one Flush before the
\* next Read; what the client sees is one delivery per Read, never two
\* Reads in one delivery.
C5_FlushPerRead ==
  SSERelay =>
    /\ IsPrefix(fwd.writes, fwd.reads)
    /\ Len(fwd.reads) - Len(fwd.writes) \in {0, 1}
    /\ Len(fwd.writes) - fwd.flushes \in {0, 1}
    /\ fwd.pc = "read" =>
         (fwd.writes = fwd.reads /\ fwd.flushes = Len(fwd.reads) /\ fwd.wbuf = <<>>)
    /\ Len(fwd.deliv) <= Len(fwd.reads)
    /\ \A i \in 1..Len(fwd.deliv) : fwd.deliv[i] = fwd.reads[i]

C5_Witness ==
  /\ SSERelay /\ fwd.pc = "returned" /\ ~fwd.cGone
  /\ fwd.upSent = <<0, 1, 1>>
  /\ fwd.deliv = << <<0>>, <<1, 1>> >>
  /\ fwd.flushes = 2

\* C7: once a write to the client has failed during the relay of an event
\* stream, the copy does no further Read, Write or Flush.
C7_RelayStopsOnWriteError ==
  (fwd.upOK /\ fwd.pc \notin {"idle", "do"} /\ DenotesEventStream(fwd.ctype)
     /\ fwd.wfailed) =>
    (fwd.afterFail = {} /\ fwd.pc = "returned")

C7_Witness ==
  /\ SSERelay /\ fwd.wfailed /\ fwd.pc = "returned"
  /\ Len(fwd.writes) = 2 /\ fwd.flushes = 1
  /\ fwd.up2p # <<>>

\* C13: when the relay cannot reach the target, the client gets exactly one
\* error response, 503 from the tunnel after a failed dial and 502 from the
\* forwarder after a failed upstream request, after a single attempt, and
\* nothing else is written or relayed for that request.
C13_UnreachableReportedOnce ==
  /\ (tun.pc = "returned" /\ ~tun.dialOK) =>
       /\ tun.httpResp = <<503>> /\ tun.dials = 1
       /\ ~tun.c200 /\ tun.tconn = "none" /\ tun.cconn = "http"
       /\ tun.cRecv = <<>> /\ tun.tRecv = <<>>
  /\ (fwd.pc = "returned" /\ ~fwd.upOK) =>
       /\ fwd.httpStatus = 502 /\ fwd.upReqs = 1
       /\ fwd.reads = <<>> /\ fwd.writes = <<>> /\ fwd.deliv = <<>>

C13_Witness ==
  tun.pc = "returned" /\ ~tun.dialOK /\ tun.httpResp = <<503>> /\ tun.dials = 1

\* the forward half of the same case
C13_WitnessForward ==
  fwd.pc = "returned" /\ ~fwd.upOK /\ fwd.httpStatus = 502 /\ fwd.upReqs = 1

\* C14: every hijacking failure in the tunnel, the writer being no
\* http.Hijacker or Hijack() returning an error, is answered with 500; no
\* 200 Connection Established line is written and no bytes are relayed.
C14_HijackFailureIs500 ==
  (tun.pc = "returned" /\ tun.dialOK /\ (~tun.hijacker \/ ~tun.hijackOK)) =>
    /\ tun.httpResp = <<500>>
    /\ ~tun.c200
    /\ tun.cRecv = <<>> /\ tun.tRecv = <<>>

ForwardedNames == {XFF, "X-Forwarded-Host", "X-Forwarded-Proto"}

\* the addresses of a list of X-Forwarded-For values: the runs between
\* commas and blanks, value after value
IsSep(c) == c \in {",", " "}

AddrStarts(s) == {i \in 1..Len(s) : ~IsSep(s[i]) /\ (i = 1 \/ IsSep(s[i - 1]))}

AddrEnd(s, i) ==
  CHOOSE j \in i..Len(s) :
    /\ \A k \in i..j : ~IsSep(s[k])
    /\ (j = Len(s) \/ IsSep(s[j + 1]))

Addresses(s) ==
  LET starts == AddrStarts(s)
      Nth(k) == CHOOSE i \in starts : Cardinality({j \in starts : j <= i}) = k
  IN [k \in 1..Cardinality(starts) |-> SubSeq(s, Nth(k), AddrEnd(s, Nth(k)))]

AllAddresses(values) == Concat([i \in 1..Len(values) |-> Addresses(values[i])])

\* C15 as stated: after the relay has built the outbound request headers, or
\* the headers it returns to the client, none of the eight hop-by-hop names
\* is present and every other header keeps exactly its inbound values.
C15_StripsHopByHopCopiesRest ==
  hdr.pc \in {"sent", "relayed"} =>
    \A k \in HeaderNames :
      IF k \in HopNames THEN hdr.outHdr[k] = <<>>
      ELSE hdr.outHdr[k] = hdr.inHdr[k]

\* C15, amended: none of the eight hop-by-hop names is present in the
\* outbound request headers nor in the headers returned to the client; every
\* other header keeps exactly its inbound values, except that on the
\* outbound request X-Forwarded-For, X-Forwarded-Host and X-Forwarded-Proto
\* are the relay's own.
C15_StripsHopByHopCopiesOthers ==
  hdr.pc \in {"sent", "relayed"} =>
    \A k \in HeaderNames :
      IF k \in HopNames THEN hdr.outHdr[k] = <<>>
      ELSE (hdr.pc = "sent" /\ k \in ForwardedNames) \/ hdr.outHdr[k] = hdr.inHdr[k]

\* a request with a hop-by-hop header, a two-line ordinary header and an
\* inbound X-Forwarded-Host has been rewritten
C15_Witness ==
  /\ hdr.pc = "sent"
  /\ \E k \in HopNames : hdr.inHdr[k] # <<>>
  /\ Len(hdr.inHdr["Accept"]) = 2
  /\ hdr.outHdr["Accept"] = hdr.inHdr["Accept"]
  /\ hdr.inHdr["X-Forwarded-Host"] # <<>>
  /\ hdr.outHdr["X-Forwarded-Host"] # hdr.inHdr["X-Forwarded-Host"]

\* C16: when the remote address parses as host:port, the outbound
\* X-Forwarded-For is the client's address if the request carried none, and
\* otherwise lists every address of the inbound X-Forwarded-For values in
\* order followed by the client's address; X-Forwarded-Host is the inbound
\* Host and X-Forwarded-Proto is set.
C16_ForwardedForExtended ==
  hdr.pc = "sent" =>
    LET sp == SplitHostPort(hdr.remoteAddr)
    IN /\ hdr.outHdr["X-Forwarded-Host"] = <<hdr.host>>
       /\ hdr.outHdr["X-Forwarded-Proto"] # <<>>
       /\ sp.ok =>
            /\ hdr.inHdr[XFF] = <<>> => hdr.outHdr[XFF] = <<sp.host>>
            /\ AllAddresses(hdr.outHdr[XFF]) = AllAddresses(hdr.inHdr[XFF]) \o <<sp.host>>


\* =========================================================================
\*  Properties of the models and embeddings endpoints
\* =========================================================================
\* the {id} of a GET /v1/models/{id}: what follows the prefix, a single
\* closing "/" not counted
AskedId == TrimSuffix(TrimPrefix(api.path, ModelsPrefix), <<"/">>)

ModelByIdServed ==
  /\ api.pc = "done" /\ api.method = "GET" /\ HasPrefix(api.path, ModelsPrefix)
  /\ "modelByIDHandler" \in api.reached

\* C18: a GET /v1/models/{id} for an id outside the catalog is answered 404
\* with code model_not_found and type invalid_request_error; for an id of
\* the catalog the answer is that model's record.
C18_UnknownModelIs404 ==
  ModelByIdServed =>
    IF AskedId \in ModelIds
      THEN /\ api.resp.kind = "model" /\ api.resp.status = 200
           /\ api.resp.record.id = AskedId
           /\ \E i \in 1..Len(mockModels) : mockModels[i] = api.resp.record
      ELSE /\ api.resp.kind = "error" /\ api.resp.status = 404
           /\ api.resp.code = Some("model_not_found")
           /\ api.resp.type = "invalid_request_error"

\* an id that only begins like a catalog id has been refused
C18_Witness ==
  /\ ModelByIdServed
  /\ AskedId \notin ModelIds
  /\ \E m \in ModelIds : IsPrefix(m, AskedId)
  /\ api.resp.status = 404

EmbeddingsServed == api.pc = "done" /\ api.resp.kind = "embeddings"

\* the length the vectors are to have
DeclaredDimensions(rq) ==
  IF rq.dimensions # Nil /\ rq.model \in {Embedding3Small, Embedding3Large}
    THEN rq.dimensions[1]
  ELSE IF rq.model = Embedding3Large THEN 3072
  ELSE 1536

\* C19: every vector of an embeddings response has length 3072 for
\* text-embedding-3-large and 1536 for any other model, unless dimensions is
\* given and the model is text-embedding-3-small or -3-large, and then
\* length dimensions; dimensions given for another model is ignored.
C19_VectorLength ==
  EmbeddingsServed =>
    \A i \in 1..Len(api.resp.data) :
      Len(api.resp.data[i].embedding.num) = DeclaredDimensions(api.body)

\* dimensions given for text-embedding-ada-002 has been ignored
C19_Witness ==
  /\ EmbeddingsServed
  /\ api.body.model = EmbeddingAda /\ api.body.dimensions = Some(2)
  /\ Len(api.resp.data) = 2
  /\ Len(api.resp.data[1].embedding.num) = 1536

\* the sum of the squares of the numerators of a returned vector
SumSqNum(e) == SumSq(e.num, 1, Len(e.num))

\* C20: every returned vector whose raw components are not all zero has an
\* L2 norm within a tolerance (one tenth) of 1: with components num[j]/den,
\* 0.9 <= sqrt(sum num[j]^2) / den <= 1.1.
C20_UnitNorm ==
  EmbeddingsServed =>
    \A i \in 1..Len(api.resp.data) :
      LET e == api.resp.data[i].embedding
      IN SumSqNum(e) # 0 =>
           /\ 81 * e.den * e.den <= 100 * SumSqNum(e)
           /\ 100 * SumSqNum(e) <= 121 * e.den * e.den


\* an input that is an array of strings only
AllStrings(input) ==
  input.t = "array" /\ \A k \in 1..Len(input.v) : input.v[k].t = "string"

\* C21: an embeddings response to a single string has exactly one data
\* entry, to an array of k strings exactly k; entry i carries index i
\* counting from 0; usage.prompt_tokens equals usage.total_tokens.
C21_OneEntryPerInput ==
  EmbeddingsServed =>
    /\ api.resp.usage.prompt_tokens = api.resp.usage.total_tokens
    /\ \A i \in 1..Len(api.resp.data) : api.resp.data[i].index = i - 1
    /\ api.body.input.t = "string" => Len(api.resp.data) = 1
    /\ AllStrings(api.body.input) => Len(api.resp.data) = Len(api.body.input.v)

\* an array of two strings has been answered with entries 0 and 1
C21_Witness ==
  /\ EmbeddingsServed
  /\ AllStrings(api.body.input) /\ Len(api.body.input.v) = 2
  /\ Len(api.resp.data) = 2
  /\ api.resp.data[1].index = 0 /\ api.resp.data[2].index = 1
  /\ api.resp.usage.total_tokens > 0

\* C22: a decodable embeddings POST with an empty model, no input, or an
\* input that is neither a string nor an array of strings is answered 400
\* with the param "model" or "input", and nothing is embedded.
C22_InvalidFieldIs400 ==
  (/\ api.pc = "done" /\ Route(api.path) = "embeddings"
   /\ api.method = "POST" /\ api.body.decodable
   /\ \/ api.body.model = <<>>
      \/ api.body.input.t = "nil"
      \/ ~(api.body.input.t = "string" \/ AllStrings(api.body.input))) =>
    /\ api.resp.kind = "error" /\ api.resp.status = 400
    /\ api.resp.param = Some(IF api.body.model = <<>> THEN "model" ELSE "input")


\* =========================================================================
\*  Properties of the inference server as a whole
\* =========================================================================
\* the method each known path is served with
MethodOf(path) == IF Route(path) \in {"models", "modelByID"} THEN "GET" ELSE "POST"

\* an error response is of a known type and its status mirrors its class
ErrorShape(e) ==
  e.kind = "error" =>
    /\ e.type \in {"invalid_request_error", "server_error"}
    /\ e.status \in {400, 404, 405, 500}
    /\ e.status = 500 <=> e.type = "server_error"
    /\ e.status = 400 =>
         e.param \in {Some("body"), Some("model"), Some("messages"), Some("input")}
    /\ e.status = 404 => e.code \in {Some("model_not_found"), Some("unknown_url")}
    /\ e.status = 405 =>
         Route(api.path) # "unknown" /\ api.method # MethodOf(api.path)
    /\ Route(api.path) = "unknown" => e.status = 404
    /\ (Route(api.path) # "unknown" /\ api.method # MethodOf(api.path)) => e.status = 405

\* C23: every error response of the inference server, on any path, has a
\* type in {invalid_request_error, server_error} and a status in
\* {400, 404, 405, 500} matching its class: 400 malformed body or missing
\* field, 404 unknown model or URL, 405 wrong method on a known path, 500
\* exactly with server_error.
C23_ErrorShapeAndStatus ==
  /\ ErrorShape(api.resp)
  /\ \A r \in Reqs : ErrorShape(chat[r].resp)

\* a streaming chat request routed by the server has been refused with 500
C23_Witness ==
  /\ api.pc = "chat" /\ chat[1].pc = "completed"
  /\ chat[1].resp.kind = "error" /\ chat[1].resp.status = 500
  /\ chat[1].resp.type = "server_error"

\* the request has been answered
Answered ==
  \/ api.pc = "done" /\ api.resp.kind # "panic"
  \/ api.pc = "chat" /\ (chat[1].pc = "completed" \/ chat[1].wire # <<>>)

\* C24: every response of the inference server carries the permissive
\* cross-origin headers, and an OPTIONS request on any path is answered 200
\* with no body without reaching the router or a handler.
C24_CorsOnEveryResponse ==
  /\ Answered => \A k \in CorsNames : api.whdr[k] = CorsValue(k)
  /\ (api.pc = "done" /\ api.method = "OPTIONS") =>
       /\ api.resp.status = 200 /\ api.resp.kind = "empty"
       /\ api.reached \subseteq {"corsMiddleware"}
       /\ chat[1].pc = "idle"


\* =========================================================================
\*  Further properties of the tunnel and of the forwarder
\* =========================================================================
\* the client connection was taken over and the 200 line could not be written
Write200Failed ==
  /\ tun.pc = "returned" /\ tun.dialOK /\ tun.hijacker /\ tun.hijackOK
  /\ ~tun.c200

\* C28: the 200 Connection Established line is written only after the
\* target connection is open and the client connection taken over; no copy
\* task runs and no byte is delivered in either direction before the line
\* is written; when writing it fails no copy task is started and both
\* connections are closed.
C28_TunnelStepOrder ==
  /\ tun.c200 => tun.dials = 1 /\ tun.tconn # "none" /\ tun.cconn # "http"
  /\ tun.pc = "write200" => tun.tconn = "open" /\ tun.cconn = "hijacked"
  /\ ~tun.c200 =>
       /\ tun.g1.pc = "none" /\ tun.g2.pc = "none"
       /\ tun.cRecv = <<>> /\ tun.tRecv = <<>>
  /\ Write200Failed => tun.tconn = "closed" /\ tun.cconn = "closed"

\* the client was gone when the line was to be written
C28_Witness ==
  /\ Write200Failed /\ tun.cGone
  /\ tun.tconn = "closed" /\ tun.cconn = "closed"
  /\ tun.g1.pc = "none" /\ tun.tRecv = <<>>


\* C29: in every forwarded response, event stream or not, the bytes written
\* to the client are a prefix of the upstream body in upstream order, and
\* the whole body when upstream ended with end-of-stream and no write
\* failed; bytes a Read returned together with an error or end-of-stream
\* are still written (and, in the event-stream relay, flushed) before the
\* copy stops.
C29_ForwardedBodyIsPrefix ==
  (fwd.upOK /\ fwd.pc \notin {"idle", "do"}) =>
    /\ IsPrefix(Concat(fwd.writes), fwd.upSent)
    /\ IsPrefix(fwd.writes, fwd.reads)
    /\ IsPrefix(Concat(fwd.deliv), Concat(fwd.writes))
    /\ (fwd.pc = "returned" /\ ~fwd.wfailed) =>
         /\ fwd.writes = fwd.reads
         /\ Concat(fwd.reads) \o fwd.up2p = fwd.upSent
         /\ fwd.mode = "stream" => fwd.flushes = Len(fwd.reads)
         /\ fwd.rerr = "eof" => Concat(fwd.writes) = fwd.upSent
         /\ ~fwd.cGone => Concat(fwd.deliv) = fwd.upSent

\* a body whose last bytes came together with the end-of-stream has been
\* relayed whole by io.Copy
C29_Witness ==
  /\ fwd.upOK /\ fwd.pc = "returned" /\ fwd.mode = "bulk"
  /\ ~fwd.wfailed /\ ~fwd.cGone /\ fwd.rerr = "eof"
  /\ fwd.buf # <<>>
  /\ Len(fwd.upSent) = MaxBody /\ Concat(fwd.deliv) = fwd.upSent


\* =========================================================================
\*  Further properties of chat completions
\* =========================================================================
\* the status and param of the first check a request fails, in the order
\* method, body, model, messages
FirstFailure(rq) ==
  IF rq.method # "POST" THEN <<405, Nil>>
  ELSE IF ~rq.decodable THEN <<400, Some("body")>>
  ELSE IF rq.model = "" THEN <<400, Some("model")>>
  ELSE <<400, Some("messages")>>

\* C30: chatCompletionsHandler checks method (405), body (400, body), model
\* (400, model), messages (400, messages) in that order and reports the
\* first check that fails, as the only response of the request; an empty
\* model together with empty messages is reported with param "model".
C30_FirstFailedCheckReported ==
  \A r \in Reqs :
    LET c == chat[r]  rq == c.req
    IN (c.pc # "idle" /\ ~ValidReq(rq)) =>
         /\ c.pc \in {"received", "completed"}
         /\ c.wire = <<>> /\ c.synth = {}
         /\ c.pc = "completed" =>
              /\ c.resp.kind = "error"
              /\ c.resp.type = "invalid_request_error"
              /\ <<c.resp.status, c.resp.param>> = FirstFailure(rq)

\* a request with neither model nor messages has been reported with "model"
C30_Witness ==
  \E r \in Reqs :
    /\ chat[r].pc = "completed"
    /\ chat[r].req.method = "POST" /\ chat[r].req.decodable
    /\ chat[r].req.model = "" /\ chat[r].req.messages = <<>>
    /\ chat[r].resp.status = 400 /\ chat[r].resp.param = Some("model")

\* =========================================================================
\*  Properties of the providers (checked under SpecProv)
\* =========================================================================
\* a chat request of the no-stream provider has been sent
ChatBodySent == prov.op \in {"doGenerate", "doStream"} /\ prov.sent.called

HasKey(tree, key) ==
  tree.t = "obj" /\ \E i \in 1..Len(tree.v) : tree.v[i].k = key

HasField(tree, key, value) ==
  tree.t = "obj" /\ \E i \in 1..Len(tree.v) : tree.v[i].k = key /\ tree.v[i].v = value

\* C25 as stated: every body sent to /chat/completions by doGenerate or
\* doStream has stream = false.
C25_StreamAlwaysFalse ==
  ChatBodySent =>
    /\ prov.sent.opts.body.kind = "json"
    /\ HasField(prov.sent.opts.body.tree, "stream", JBool(FALSE))

\* C25 amended: every body sent to /chat/completions by doGenerate or doStream
\* has stream = false, or no stream field at all when removeKeys lists
\* "stream"; it never has stream = true.
C25_StreamFalseOrRemoved ==
  ChatBodySent =>
    LET body == prov.sent.opts.body
    IN /\ body.kind = "json"
       /\ ~HasField(body.tree, "stream", JBool(TRUE))
       /\ IF Includes(prov.settings.removeKeys, "stream")
            THEN ~HasKey(body.tree, "stream")
            ELSE HasField(body.tree, "stream", JBool(FALSE))

C25_Witness ==
  /\ ChatBodySent
  /\ prov.op = "doStream"
  /\ prov.calls = MaxCalls
  /\ Includes(prov.settings.removeKeys, "stream")
  /\ HasKey(prov.init.tree, "stream")
  /\ ~HasKey(prov.sent.opts.body.tree, "stream")

\* the value without the listed keys at any depth, everything else kept
RECURSIVE WithoutKeys(_, _)
WithoutKeys(tree, keys) ==
  IF tree.t = "arr" THEN JArr([i \in 1..Len(tree.v) |-> WithoutKeys(tree.v[i], keys)])
  ELSE IF tree.t = "obj"
    THEN LET kept == SelectSeq(tree.v, LAMBDA e : ~Includes(keys, e.k))
         IN JObj([i \in 1..Len(kept) |->
                    Entry(kept[i].k, WithoutKeys(kept[i].v, keys))])
  ELSE tree

BodyAsRequired(init, out) ==
  IF prov.settings.removeKeys # <<>> /\ init.kind = "json"
    THEN out = JsonBody(WithoutKeys(init.tree, prov.settings.removeKeys))
    ELSE out = init

\* C26: with removeKeys non-empty and a JSON body, the body sent has none of
\* the listed keys at any depth and keeps every other key, every value and
\* every array; otherwise the body is sent unchanged.
C26_RemovesOnlyListedKeys ==
  /\ prov.sent.called => BodyAsRequired(prov.init, prov.sent.opts.body)
  /\ prov.sentMtls.called => BodyAsRequired(prov.init, prov.sentMtls.opts.body)

\* C27: createCustomFetch of the no-stream provider fails or succeeds as that
\* of the mTLS provider does, and on the same request both produce the same
\* fetch options (tls, proxy, body).
C27_SameHelpers ==
  prov.pc # "idle" =>
    /\ prov.loaded.thrown = prov.loadedMtls.thrown
    /\ prov.sent.called /\ prov.sentMtls.called =>
         prov.sent.opts = prov.sentMtls.opts

\* =========================================================================
\*  Further properties of the inference endpoint (checked under SpecChat)
\* =========================================================================
\* the flat text of a message content: the string, or the non-empty text
\* parts of a parts array with one space between neighbours
RECURSIVE SpacedParts(_)
SpacedParts(parts) ==
  LET texts == SelectSeq(parts, LAMBDA p : p.Type = "text" /\ Len(p.Text) > 0)
  IN IF texts = <<>> THEN <<>>
     ELSE IF Len(texts) = 1 THEN texts[1].Text
     ELSE texts[1].Text \o <<" ">> \o SpacedParts(Tail(texts))

FlatText(content) ==
  IF content.Parts = <<>> THEN content.Text ELSE SpacedParts(content.Parts)

RECURSIVE QuarterSum(_)
QuarterSum(msgs) ==
  IF msgs = <<>> THEN 0
  ELSE (Len(FlatText(Head(msgs).content)) \div 4) + QuarterSum(Tail(msgs))

IsToolReply(resp) ==
  \E j \in 1..Len(resp.choices) : resp.choices[j].message.tool_calls # <<>>

\* C31: in every non-streaming chat response prompt_tokens is the sum over
\* the input messages of floor(len(flat text)/4), whatever N is;
\* total_tokens = prompt_tokens + completion_tokens; completion_tokens is 0
\* for a tool-call reply.
C31_UsageArithmetic ==
  \A r \in Reqs :
    LET c == chat[r] u == c.resp.usage
    IN c.resp.kind = "completion" =>
         /\ u.prompt_tokens = QuarterSum(c.req.messages)
         /\ u.total_tokens = u.prompt_tokens + u.completion_tokens
         /\ IsToolReply(c.resp) => u.completion_tokens = 0

C31_Witness ==
  \E r \in Reqs :
    LET c == chat[r]
    IN /\ c.resp.kind = "completion"
       /\ c.req.n = Some(2)
       /\ \E k \in 1..Len(c.req.messages) : c.req.messages[k].content.Parts # <<>>
       /\ c.resp.usage.prompt_tokens = 3
       /\ c.resp.usage.completion_tokens > 0
       /\ c.resp.usage.total_tokens = 3 + c.resp.usage.completion_tokens

\* =========================================================================
\*  Properties of concurrent streams (checked under SpecStreams)
\* =========================================================================
\* the events of one whole stream: role-open, one delta per word with a
\* space after every word but the last, finish, [DONE]
StreamFrames(hd, model, words) ==
  << Chunk(hd, model, Some("assistant"), Nil, Nil) >>
  \o [i \in 1..Len(words) |->
        Chunk(hd, model, Nil,
              Some(IF i < Len(words) THEN words[i] \o <<" ">> ELSE words[i]), Nil)]
  \o << Chunk(hd, model, Nil, Nil, Some("stop")), DoneEvent >>

Streaming(r) == chat[r].pc \in {"sleep", "word", "finish", "done"}

\* C32: with concurrent streaming requests, under every interleaving each
\* response is a prefix of its own stream (role-open, deltas of its own words
\* in order, finish, [DONE], all with its own completion id) and the whole
\* of it once the handler has returned; and whatever the other streams are
\* doing, a stream that has a frame left can take its next step.
C32_StreamsIndependent ==
  \A r \in Reqs :
    LET c == chat[r]
        own == StreamFrames([id |-> c.id, created |-> c.created,
                            fingerprint |-> c.fingerprint],
                           c.req.model, mockWords[c.idx])
    IN /\ c.pc \notin {"idle", "received"} =>
            /\ IsPrefix(c.wire, own)
            /\ c.pc = "completed" => c.wire = own
       /\ Streaming(r) => ENABLED StreamStep(r)

C32_Witness ==
  /\ chat[1].pc = "sleep" /\ chat[1].i = 3
  /\ chat[2].pc = "completed"
  /\ chat[1].id # chat[2].id
  /\ chat[1].idx # chat[2].idx
  /\ Len(chat[1].wire) = 3

\* =========================================================================
\*  Properties of the non-streaming reply (checked under SpecChat)
\* =========================================================================
\* a valid non-streaming request waits for its reply
AwaitsReply(r) ==
  /\ chat[r].pc = "received"
  /\ ChatValidate(chat[r].req) = NoResp
  /\ ~chat[r].req.stream

\* C33: a non-streaming response carries a tool call only if the tools list
\* is non-empty and tool_choice is not a string other than "required" or
\* "auto" (so never for "none", never for an empty tools list); with tools
\* present and tool_choice unset both a tool call and prose can follow.
C33_ToolCallOnlyWhenAllowed ==
  \A r \in Reqs :
    LET c == chat[r] rq == c.req
    IN /\ (c.resp.kind = "completion" /\ IsToolReply(c.resp)) =>
            /\ Len(rq.tools) > 0
            /\ ~(rq.tool_choice.t = "string" /\ rq.tool_choice.v \notin {"required", "auto"})
       /\ (AwaitsReply(r) /\ Len(rq.tools) > 0 /\ rq.tool_choice.t = "nil") =>
            /\ ENABLED (ChatRespond(r) /\ IsToolReply(chat'[r].resp))
            /\ ENABLED (ChatRespond(r) /\ ~IsToolReply(chat'[r].resp))

C33_Witness ==
  \E r \in Reqs :
    /\ chat[r].resp.kind = "completion"
    /\ IsToolReply(chat[r].resp)
    /\ chat[r].req.tool_choice.t = "nil"
    /\ Len(chat[r].req.tools) = 2

CannedReplies == {mockResponses[k] : k \in 1..Len(mockResponses)}

\* C34: in every non-streaming success response all choices carry the same
\* message and finish_reason; finish_reason is "tool_calls" exactly when the
\* message has exactly one tool call and empty content, and "stop" exactly
\* when it has no tool call and its content is one of the canned replies.
C34_ChoicesAgree ==
  \A r \in Reqs :
    LET ch == chat[r].resp.choices
    IN chat[r].resp.kind = "completion" =>
         /\ Len(ch) >= 1
         /\ \A j \in 1..Len(ch) :
              /\ ch[j].message = ch[1].message
              /\ ch[j].finish_reason = ch[1].finish_reason
              /\ ch[j].finish_reason \in {"tool_calls", "stop"}
              /\ ch[j].finish_reason = "tool_calls" <=>
                   /\ Len(ch[j].message.tool_calls) = 1
                   /\ GetText(ch[j].message.content) = <<>>
              /\ ch[j].finish_reason = "stop" <=>
                   /\ ch[j].message.tool_calls = <<>>
                   /\ ch[j].message.content.Text \in CannedReplies

C34_Witness ==
  \E r \in Reqs :
    /\ chat[r].resp.kind = "completion"
    /\ Len(chat[r].resp.choices) = 2
    /\ chat[r].resp.choices[2].finish_reason = "tool_calls"
    /\ Len(chat[r].resp.choices[2].message.tool_calls) = 1

\* =========================================================================
\*  Properties of the chunks of one stream (checked under SpecChat)
\* =========================================================================
\* C35: all chunks of one streamed response carry the same completion id,
\* created timestamp and system fingerprint and the request's model, each
\* with one choice of index 0; only the finish chunk (the one after the last
\* content delta) has a finish_reason and only the role-open chunk (the
\* first) has a role.
C35_ChunksShareHeader ==
  \A r \in Reqs :
    LET c == chat[r] w == c.wire
    IN \A k \in 1..Len(w) :
         w[k].kind = "chunk" =>
           /\ w[k].id = w[1].id
           /\ w[k].created = w[1].created
           /\ w[k].system_fingerprint = w[1].system_fingerprint
           /\ w[k].model = c.req.model
           /\ w[k].index = 0
           /\ w[k].finish_reason # Nil <=> k = Len(mockWords[c.idx]) + 2
           /\ w[k].role # Nil <=> k = 1

C35_Witness ==
  \E r \in Reqs :
    LET c == chat[r]
    IN /\ c.pc = "completed"
       /\ c.req.stream /\ c.idx > 0
       /\ Len(c.wire) = Len(mockWords[c.idx]) + 3
       /\ c.now > c.created
       /\ c.wire[Len(c.wire) - 1].finish_reason = Some("stop")
       /\ c.wire[Len(c.wire) - 1].system_fingerprint = "fp_2"

\* =========================================================================
\*  Termination of the tunnel's copy tasks (checked under SpecTunnelFair)
\* =========================================================================
CopyTasksEnded == tun.g1.pc \in {"none", "exit"} /\ tun.g2.pc \in {"none", "exit"}

NoConnectionOpen == tun.tconn # "open" /\ tun.cconn # "hijacked"

\* C36: a copy task that is to signal its completion can always do so (the
\* done channel has room for both signals); once handleConnect has returned,
\* on any path, no connection it opened or took over is open, and every
\* started copy task terminates.
C36_CopyTasksTerminate ==
  /\ [](\A g \in {tun.g1, tun.g2} : g.pc = "signal" => tun.done < 2)
  /\ [](tun.pc = "returned" => NoConnectionOpen)
  /\ (tun.pc = "returned") ~> CopyTasksEnded

C36_Witness ==
  /\ tun.pc = "returned"
  /\ tun.g1.pc = "exit" /\ tun.g2.pc = "exit"
  /\ tun.done = 1
  /\ tun.tconn = "closed" /\ tun.cconn = "closed"

\* =========================================================================
\*  Properties of doGenerate and doStream (checked under SpecProv)
\* =========================================================================
\* what the server's answer holds, read off the answer itself
AnswerMessage(resp) == GetField(FirstChoice(resp.body.tree), "message")

AnswerText(resp) ==
  LET content == GetField(AnswerMessage(resp), "content")
  IN IF content.t = "str" /\ content.v # <<>> THEN Some(content) ELSE Nil

AnswerCalls(resp) ==
  LET calls == GetField(AnswerMessage(resp), "tool_calls")
  IN IF calls.t = "arr" THEN calls.v ELSE <<>>

AnswerFinish(resp) ==
  LET raw == GetField(FirstChoice(resp.body.tree), "finish_reason")
  IN IF raw = JStr(<<"stop">>) THEN <<"stop">>
     ELSE IF raw = JStr(<<"length">>) THEN <<"length">>
     ELSE IF raw = JStr(<<"content_filter">>) THEN <<"content-filter">>
     ELSE IF raw = JStr(<<"tool_calls">>) \/ raw = JStr(<<"function_call">>)
       THEN <<"tool-calls">>
     ELSE <<"unknown">>

AnswerUsage(resp) ==
  LET usage == GetField(resp.body.tree, "usage")
      Of(key) == IF GetField(usage, key).t = "num" THEN GetField(usage, key)
                 ELSE Undefined
  IN [inputTokens |-> Of("prompt_tokens"),
      outputTokens |-> Of("completion_tokens"),
      totalTokens |-> Of("total_tokens")]

\* a 2xx answer whose body is a JSON object
WellFormed(resp) ==
  /\ resp.status \in 200..299
  /\ resp.body.kind = "json"
  /\ resp.body.tree.t = "obj"

TextTypes == <<"text-start", "text-delta", "text-end">>

ToolTypes == <<"tool-input-start", "tool-input-delta", "tool-input-end", "tool-call">>

PartTypes(resp) ==
  <<"stream-start", "response-metadata">>
  \o (IF AnswerText(resp) # Nil THEN TextTypes ELSE <<>>)
  \o Concat([j \in 1..Len(AnswerCalls(resp)) |-> ToolTypes])
  \o <<"finish">>

\* C37: for every successful answer doStream emits stream-start,
\* response-metadata, then per content block in answer order text-start,
\* text-delta, text-end with one id or tool-input-start, tool-input-delta,
\* tool-input-end, tool-call with the call's id, then one finish part with
\* the mapped finish reason and the usage, and closes the stream.
C37_StreamPartOrder ==
  (prov.stream.kind # "none" /\ WellFormed(prov.streamResp)) =>
    LET resp == prov.streamResp
        parts == prov.stream.parts
        first == IF AnswerText(resp) # Nil THEN 5 ELSE 2
        calls == AnswerCalls(resp)
    IN /\ prov.stream.kind = "stream"
       /\ [i \in 1..Len(parts) |-> parts[i].type] = PartTypes(resp)
       /\ AnswerText(resp) # Nil =>
            /\ parts[3].id = parts[4].id /\ parts[4].id = parts[5].id
            /\ parts[4].delta = AnswerText(resp)[1]
       /\ \A j \in 1..Len(calls) :
            LET at == first + 4 * (j - 1)
            IN /\ \A d \in 1..3 : parts[at + d].id = GetField(calls[j], "id")
               /\ parts[at + 4].toolCallId = GetField(calls[j], "id")
       /\ parts[Len(parts)].finishReason = AnswerFinish(resp)
       /\ parts[Len(parts)].usage = AnswerUsage(resp)
       /\ prov.stream.closed

C37_Witness ==
  /\ prov.stream.kind = "stream"
  /\ AnswerText(prov.streamResp) # Nil
  /\ Len(AnswerCalls(prov.streamResp)) = 1
  /\ Len(prov.stream.parts) = 10
  /\ prov.stream.parts[10].finishReason = <<"tool-calls">>

TypedParts(parts, type) == SelectSeq(parts, LAMBDA p : p.type = type)

\* C38: for the same answer, the text-delta parts of doStream concatenated
\* and its tool-call parts (id, name, input) equal the content of doGenerate,
\* and the finish part's finishReason and usage equal those of doGenerate.
C38_StreamAgreesWithGenerate ==
  (prov.gen.kind = "generate" /\ prov.stream.kind # "none"
     /\ prov.genResp = prov.streamResp) =>
    LET parts == prov.stream.parts
        deltas == TypedParts(parts, "text-delta")
        texts == TypedParts(prov.gen.content, "text")
        finish == TypedParts(parts, "finish")
    IN /\ prov.stream.kind = "stream"
       /\ Concat([i \in 1..Len(deltas) |-> deltas[i].delta.v])
            = Concat([i \in 1..Len(texts) |-> texts[i].text.v])
       /\ TypedParts(parts, "tool-call") = TypedParts(prov.gen.content, "tool-call")
       /\ Len(finish) = 1
       /\ finish[1].finishReason = prov.gen.finishReason
       /\ finish[1].usage = prov.gen.usage

C38_Witness ==
  /\ prov.gen.kind = "generate" /\ prov.stream.kind = "stream"
  /\ prov.genResp = prov.streamResp
  /\ Len(TypedParts(prov.gen.content, "text")) = 1
  /\ Len(TypedParts(prov.gen.content, "tool-call")) = 1
  /\ prov.gen.usage.outputTokens = Undefined
  /\ prov.gen.usage.inputTokens = JNum(3)

Failed(result, resp) ==
  /\ result.kind = "thrown"
  /\ result.error.status = resp.status
  /\ result.error.text = resp.body
  /\ result.content = <<>>
  /\ result.parts = <<>>
  /\ ~result.closed

\* C39: when the server answers with a status outside 200..299, doGenerate
\* and doStream fail with an error carrying the status and the response
\* text; no result is returned and no stream part is emitted.
C39_ErrorStatusFails ==
  /\ (prov.gen.kind # "none" /\ prov.genResp.status \notin 200..299) =>
       Failed(prov.gen, prov.genResp)
  /\ (prov.stream.kind # "none" /\ prov.streamResp.status \notin 200..299) =>
       Failed(prov.stream, prov.streamResp)

C39_Witness ==
  /\ prov.gen.kind = "thrown" /\ prov.genResp.status = 404
  /\ prov.stream.kind = "thrown" /\ prov.streamResp.status = 500
  /\ prov.stream.error.text = TextBody

====
